---- MODULE Spec2Model ----
(***************************************************************************)
(* Environment reconciliation of wayland-session.py: prepare_env computes  *)
(* what to export to / unset from the systemd user manager from two        *)
(* environment snapshots and the varnames policy tables, and records the   *)
(* names to remove on stop in the file env_names_for_cleanup_<wm_id>;      *)
(* finalize appends to that file; cleanup_env consumes the files.          *)
(*                                                                         *)
(* The specifications:                                                     *)
(*   SpecRec   the computation of prepare_env over all snapshot pairs of   *)
(*             EnvNames with values 1..MaxVals                             *)
(*   Spec      sequences of 'aux prepare-env', 'finalize' and              *)
(*             'aux cleanup-env' invocations, one external command a step  *)
(*   SpecRace  two invocations rewriting the cleanup file of one session,  *)
(*             the read and the write of each as separate steps            *)
(*   SpecStart one 'start' invocation from its command line to its exit    *)
(*   SpecTwice the computation of prepare_env done twice, the second time  *)
(*             with the sets iterated in any order                         *)
(*   SpecSession  invocations of prepare-env and finalize that succeed,    *)
(*             and cleanup-env, with the exported names kept track of      *)
(*   SpecText  the cleanup file as characters, read and rewritten          *)
(*   SpecCheck one 'check may-start' invocation                            *)
(*   SpecStop  one 'stop' invocation, with or without -r                   *)
(***************************************************************************)
EXTENDS Integers, Sequences, FiniteSets, TLC

\* ------------------------------------------------------------------------
\* Bounds
\* ------------------------------------------------------------------------
\* number of distinct variable values in the snapshots of SpecRec
MaxVals == 2

\* number of characters of the cleanup files SpecText starts from
MaxTextLen == 4

\* number of characters fgconsole prints in SpecCheck
MaxOutLen == 2

\* ------------------------------------------------------------------------
\* class varnames
\* ------------------------------------------------------------------------
always_export ==
    {"XDG_SESSION_ID", "XDG_VTNR", "XDG_CURRENT_DESKTOP",
     "XDG_SESSION_DESKTOP", "XDG_MENU_PREFIX", "PATH"}

never_export ==
    {"PWD", "LS_COLORS", "INVOCATION_ID", "SHLVL", "SHELL"}

always_unset ==
    {"DISPLAY", "WAYLAND_DISPLAY"}

always_cleanup ==
    {"DISPLAY", "WAYLAND_DISPLAY", "XDG_SESSION_ID", "XDG_VTNR",
     "XDG_CURRENT_DESKTOP", "XDG_SESSION_DESKTOP", "XDG_MENU_PREFIX",
     "PATH", "XCURSOR_THEME", "XCURSOR_SIZE", "LANG"}

never_cleanup ==
    {"SSH_AGENT_LAUNCHER", "SSH_AUTH_SOCK", "SSH_AGENT_PID"}

\* ------------------------------------------------------------------------
\* Names, values, sorting
\* ------------------------------------------------------------------------
\* every variable name of the model, in the order of Python's sorted()
SortedNames ==
    << "DISPLAY", "FOO", "INVOCATION_ID", "LANG", "LS_COLORS", "PATH", "PWD",
       "SHELL", "SHLVL", "SSH_AGENT_LAUNCHER", "SSH_AGENT_PID",
       "SSH_AUTH_SOCK", "WAYLAND_DISPLAY", "XCURSOR_SIZE", "XCURSOR_THEME",
       "XDG_CURRENT_DESKTOP", "XDG_MENU_PREFIX", "XDG_SESSION_DESKTOP",
       "XDG_SESSION_ID", "XDG_VTNR" >>

\* sorted(S): the names of S as a sorted list
sorted(S) == SelectSeq(SortedNames, LAMBDA n : n \in S)

\* set(l): the elements of a list
set(l) == {l[i] : i \in DOMAIN l}

\* names the snapshots of SpecRec range over: one forced-export name, one
\* transient display name, one never-exported name, one never-cleaned name
EnvNames == {"PATH", "DISPLAY", "SHELL", "SSH_AUTH_SOCK"}

\* names the snapshots of Spec range over
LifeNames == {"PATH", "DISPLAY", "SSH_AUTH_SOCK"}

\* a value is a non-empty string, written 1, 2, ...; 0 is the empty string
EmptyValue == 0
RecValues == 1 .. MaxVals
LifeValues == {1}

\* all mappings from a subset of names N to values V
Snapshots(N, V) == UNION {[S -> V] : S \in SUBSET N}

\* the dict with no entry
EmptyDict == [k \in {} |-> EmptyValue]

\* session identifiers
WmIds == {"sway", "labwc"}

\* ------------------------------------------------------------------------
\* dict helpers
\* ------------------------------------------------------------------------
\* d.items()
items(d) == {<<k, d[k]>> : k \in DOMAIN d}

\* dict(pairs)
dict(pairs) ==
    [k \in {p[1] : p \in pairs} |-> (CHOOSE p \in pairs : p[1] = k)[2]]

\* d.update({k: v})
update(d, k, v) == [x \in DOMAIN d \cup {k} |-> IF x = k THEN v ELSE d[x]]

\* d.pop(k) for each k of S that d holds
pop_all(d, S) == [x \in DOMAIN d \ S |-> d[x]]

\* ------------------------------------------------------------------------
\* prepare_env: the computation of the three action sets
\* ------------------------------------------------------------------------
\* a difference of names only: a changed value goes unnoticed
raw_difference_names_only(pre, post) ==
    [k \in (DOMAIN post) \ (DOMAIN pre) |-> post[k]]

\* set_env = dict(set(env_post.items()) - set(env_pre.items()))
raw_difference(pre, post) == dict(items(post) \ items(pre))

\* for var in sorted(always_export - never_export - always_unset):
\*     if var in env_post: set_env.update({var: env_post[var]})
RECURSIVE force_export_loop(_, _, _)
force_export_loop(vars, d, post) ==
    IF vars = <<>> THEN d
    ELSE force_export_loop(Tail(vars),
                           IF Head(vars) \in DOMAIN post
                               THEN update(d, Head(vars), post[Head(vars)])
                               ELSE d,
                           post)

\* the forcing loop left out
force_export_skipped(d, post) == d

force_export(d, post) ==
    force_export_loop(
        sorted((always_export \ never_export) \ always_unset), d, post)

\* only never_export removed, always_unset forgotten
exclude_export_never_only(d) == pop_all(d, never_export)

\* for var in never_export | always_unset: if var in set_env: set_env.pop(var)
exclude_export(d) == pop_all(d, never_export \cup always_unset)

\* the exclusion loop left out
compute_set_env_unexcluded(pre, post) ==
    force_export(raw_difference(pre, post), post)

\* the final set_env of prepare_env
compute_set_env(pre, post) ==
    exclude_export(force_export(raw_difference(pre, post), post))

\* the reverse difference alone, always_unset not added
compute_unset_varnames_diff_only(pre, post, known) ==
    ((DOMAIN pre) \ (DOMAIN post)) \cap known

\* unset_varnames: raw reverse difference, plus always_unset, restricted to
\* the names defined in the systemd user manager
compute_unset_varnames(pre, post, known) ==
    (((DOMAIN pre) \ (DOMAIN post)) \cup always_unset) \cap known

\* the orders in which the elements of a set can come out of an iteration
Orders(S) ==
    {o \in [1 .. Cardinality(S) -> S] :
        \A i, j \in 1 .. Cardinality(S) : i # j => o[i] # o[j]}

\* dict(pairs), the pairs taken in the order the set yields them
RECURSIVE dict_loop(_, _)
dict_loop(pairs, d) ==
    IF pairs = <<>> THEN d
    ELSE dict_loop(Tail(pairs), update(d, Head(pairs)[1], Head(pairs)[2]))

\* the loop ends after its first pop
RECURSIVE exclude_export_loop_first_only(_, _)
exclude_export_loop_first_only(order, d) ==
    IF order = <<>> THEN d
    ELSE IF Head(order) \in DOMAIN d THEN pop_all(d, {Head(order)})
    ELSE exclude_export_loop_first_only(Tail(order), d)

\* for var in never_export | always_unset: if var in set_env:
\* set_env.pop(var), the names taken in the order the set yields them
RECURSIVE exclude_export_loop(_, _)
exclude_export_loop(order, d) ==
    IF order = <<>> THEN d
    ELSE exclude_export_loop(Tail(order),
                             IF Head(order) \in DOMAIN d
                               THEN pop_all(d, {Head(order)})
                               ELSE d)

\* the names of set_env left out
compute_cleanup_varnames_always_only(d) == always_cleanup \ never_cleanup

\* cleanup_varnames = set(set_env.keys()) | always_cleanup - never_cleanup
\* (Python: '-' binds tighter than '|')
compute_cleanup_varnames(d) ==
    (DOMAIN d) \cup (always_cleanup \ never_cleanup)


\* ------------------------------------------------------------------------
\* State
\* ------------------------------------------------------------------------
VARIABLES
    ledger,                   \* the files env_names_for_cleanup_<wm_id> of the
                              \* runtime dir: wm_id -> list of lines
    sysenv,                   \* environment of the systemd user manager
    pc,                       \* position of the running invocation
    cmd,                      \* the invocation: args.mode / args.aux_action
    wm_id,                    \* global wm_id
    exit_code,                \* exit status of the finished invocation
    environ,                  \* os.environ of the invocation
    env_pre,                  \* prepare_env: env_pre
    env_post,                 \* prepare_env: env_post
    systemd_varnames,         \* prepare_env, cleanup_env: systemd_varnames
    set_env_raw,              \* prepare_env: set_env as first assigned
    set_env,                  \* prepare_env: set_env after force and exclude
    unset_varnames,           \* prepare_env: unset_varnames
    cleanup_varnames,         \* prepare_env, cleanup_env: cleanup_varnames
    cleanup_files,            \* cleanup_env: cleanup_files
    current_cleanup_varnames, \* cleanup_env: current_cleanup_varnames
    export_vars,              \* finalize: export_vars
    error,                    \* message of the exception prepare_env raised
    exported,                 \* names this invocation put into sysenv
    cleanup_returned,         \* cleanup_env ran to its last line
    notified,                 \* finalize reached exec of systemd-notify
    mark_position,            \* prepare_env: mark_position (-1: no mark)
    shell_returncode,         \* prepare_env: returncode of 'sh -'
    wm_active,                \* what is_active / get_active_wm_id answered
                              \* where the invocation acts on it
    returncode_local,         \* prepare_env, cleanup_env, finalize: the
                              \* local returncode, 0 while unassigned
    session_exported,         \* names exported by the invocations that
                              \* succeeded since the last completed
                              \* cleanup_env, kept when tracking
    tracking                  \* whether session_exported is kept

\* prepare_env computing a second time from the same inputs (SpecTwice)
VARIABLES
    rerun                     \* the sets of the first computation and the
                              \* orders in which the second iterated its sets

\* a cleanup file as text (SpecText)
VARIABLES
    text,                     \* the characters of the file
    text_before,              \* the characters it held before the rewrite
    text_written              \* the program has written the file

\* 'check may-start' (SpecCheck)
VARIABLES
    check_pc,                 \* position of the invocation
    probes,                   \* what the commands and files it asks answer
    dealbreakers,             \* the list of the same name
    check_exit                \* exit status, Running while it runs

\* 'stop' with -r (SpecStop); the invocation shares the variables of 'start'
VARIABLES
    remove_units_arg,         \* args.remove_units: given or not, and its value
    typed_units,              \* the X-UWSMType values of the unit files there
                              \* are, one file for each
    typed_before,             \* typed_units when the invocation began
    shared_subdirs            \* the values whose drop-in is in a
                              \* subdirectory that holds other files

\* two invocations updating one cleanup file at the same time (SpecRace)
VARIABLES
    upd_pc,                   \* position of each invocation
    upd_kind,                 \* "prepare-env" or "finalize"
    upd_names,                \* cleanup_varnames / set(export_vars) of each
    upd_current,              \* current_cleanup_varnames of each
    upd_initial               \* names in the cleanup file at the beginning

\* the 'start' invocation (SpecStart)
VARIABLES
    start_pc,                 \* position of the invocation
    args_wm,                  \* args.wm, a string as a list of characters
    dry_run,                  \* args.dry_run
    only_generate,            \* args.only_generate
    custom,                   \* any of wm_cli_argv, wm_cli_desktop_names, ...
    default_id,               \* content of wayland-session-default-id
    unit_files,               \* unit -> "absent", "stale" or "current";
                              \* directory -> "absent", "present" or
                              \* "shared" (it holds files of others)
    units_changed,            \* global units_changed
    reloaded,                 \* daemon-reload was issued
    wm_service,               \* a wayland-wm@*.service is active or activating
    start_issued,             \* systemctl --user start --wait was issued
    signal_received,          \* signal delivered while waiting, "" if none
    stop_issued,              \* systemctl --user stop was issued
    stop_returncode,          \* what stop_wm returned, Running if not called
    start_exit                \* exit status of the invocation

globals == <<ledger, sysenv>>
control == <<pc, cmd, wm_id, exit_code>>
locals == <<environ, env_pre, env_post, systemd_varnames, set_env_raw,
            set_env, unset_varnames, cleanup_varnames, cleanup_files,
            current_cleanup_varnames, export_vars>>
history == <<error, exported, cleanup_returned, notified>>
shell_result == <<mark_position, shell_returncode>>
answers == <<wm_active, returncode_local>>
race == <<upd_pc, upd_kind, upd_names, upd_current, upd_initial>>
startvars == <<start_pc, args_wm, dry_run, only_generate, custom, default_id,
               unit_files, units_changed, reloaded, wm_service, start_issued,
               signal_received, stop_issued, stop_returncode, start_exit>>
\* variables of the other specifications
textvars == <<text, text_before, text_written>>
checkvars == <<check_pc, probes, dealbreakers, check_exit>>
stopvars == <<remove_units_arg, typed_units, typed_before, shared_subdirs>>
\* variables of the specifications added last
rest == <<textvars, checkvars, stopvars>>
outside == <<race, startvars, tracking, rerun, rest>>
vars == <<globals, control, locals, history, shell_result, answers,
          session_exported, outside>>

Running == -1

\* no second computation yet
NoRerun ==
    [done |-> FALSE, set_env |-> EmptyDict, unset_varnames |-> {},
     cleanup_varnames |-> {}, item_order |-> <<>>, pop_order |-> <<>>]

\* the invocations of SpecRace
Procs == {1, 2}

\* the units generate_units writes: a generic one and the drop-in of the WM
Units == {"wayland-wm@.service", "wayland-wm@ID.service.d/custom.conf"}

\* the directory of the units and the subdirectory of the drop-in
Dirs == {"systemd/user", "wayland-wm@ID.service.d"}

\* os.path.dirname(unit)
dirname(unit) ==
    IF unit = "wayland-wm@ID.service.d/custom.conf"
      THEN "wayland-wm@ID.service.d"
      ELSE ""

\* the states of the unit directory a file system can be in: a file lies in
\* existing directories, a directory with files of others exists
UnitTrees ==
    {f \in [Units \cup Dirs -> {"absent", "stale", "current", "present",
                                "shared"}] :
       /\ \A u \in Units : f[u] \in {"absent", "stale", "current"}
       /\ f["systemd/user"] \in {"absent", "present"}
       /\ f["wayland-wm@ID.service.d"] \in {"absent", "present", "shared"}
       /\ \A u \in Units :
            f[u] # "absent" =>
              /\ f["systemd/user"] # "absent"
              /\ dirname(u) # "" => f[dirname(u)] # "absent"
       /\ f["wayland-wm@ID.service.d"] # "absent"
            => f["systemd/user"] # "absent"}

\* ------------------------------------------------------------------------
\* Files and external commands
\* ------------------------------------------------------------------------
\* os.path.isfile(cleanup_file)
isfile(w) == w \in DOMAIN ledger

\* the file is not read: what it held is forgotten
read_cleanup_file_nothing(w) == {}

\* {l.strip() for l in open_cleanup_file.readlines() if l.strip()}
read_cleanup_file(w) == {l \in set(ledger[w]) : l # ""}

\* the last line is lost
write_cleanup_file_truncated(w, names) ==
    [f \in DOMAIN ledger \cup {w} |->
        IF f = w
          THEN SubSeq(sorted(names), 1, Len(sorted(names)) - 1)
          ELSE ledger[f]]

\* open_cleanup_file.write('\n'.join(sorted(names)))
write_cleanup_file(w, names) ==
    [f \in DOMAIN ledger \cup {w} |-> IF f = w THEN sorted(names)
                                      ELSE ledger[f]]

\* only the last file read is kept
read_cleanup_files_last_only(files) ==
    IF files = {} THEN {}
    ELSE read_cleanup_file(CHOOSE f \in files : TRUE)

\* for cleanup_file in cleanup_files: current_cleanup_varnames =
\*     current_cleanup_varnames | {the names read from cleanup_file}
read_cleanup_files(files) == UNION {read_cleanup_file(f) : f \in files}

\* one file is left behind
remove_cleanup_files_but_one(files) ==
    [f \in DOMAIN ledger \ (files \ {CHOOSE g \in files : TRUE}) |-> ledger[f]]

\* for cleanup_file in cleanup_files: os.remove(cleanup_file)
remove_cleanup_files(files) == [f \in DOMAIN ledger \ files |-> ledger[f]]

\* get_systemd_varnames: the names of "systemctl --user show-environment"
get_systemd_varnames == DOMAIN sysenv

\* systemctl --user import-environment NAMES, run in environment env;
\* dbus-update-activation-environment --systemd NAMES likewise
import_environment(senv, names, env) ==
    [k \in DOMAIN senv \cup names |-> IF k \in names THEN env[k] ELSE senv[k]]

\* dbus-update-activation-environment --systemd NAME= ...
nullify_environment(senv, names) ==
    [k \in DOMAIN senv \cup names |->
        IF k \in names THEN EmptyValue ELSE senv[k]]

\* what a command given names has applied when it returns: all of them on
\* success; on failure the request was either carried out or not
applied_names(returncode, names) ==
    IF returncode = 0 THEN {names} ELSE {{}, names}

\* nothing is unset
unset_environment_nothing(senv, names) == senv

\* systemctl --user unset-environment NAMES
unset_environment(senv, names) == [k \in DOMAIN senv \ names |-> senv[k]]

\* ------------------------------------------------------------------------
\* Process steps shared by the invocations
\* ------------------------------------------------------------------------
\* no local of the finished frame survives
ClearLocals ==
    /\ environ' = EmptyDict
    /\ env_pre' = EmptyDict
    /\ env_post' = EmptyDict
    /\ systemd_varnames' = {}
    /\ set_env_raw' = EmptyDict
    /\ set_env' = EmptyDict
    /\ unset_varnames' = {}
    /\ cleanup_varnames' = {}
    /\ cleanup_files' = {}
    /\ current_cleanup_varnames' = {}
    /\ export_vars' = <<>>

\* sys.exit(code), or the interpreter ending on an uncaught exception (1)
sys_exit(code) ==
    /\ pc' = "exited"
    /\ exit_code' = code
    /\ ClearLocals

\* session_exported after an invocation that exported names has succeeded
track(names) ==
    IF tracking THEN session_exported \cup names ELSE session_exported

\* a new process: __main__ up to the dispatch on args.mode
start_invocation(c, w) ==
    /\ pc \in {"idle", "exited"}
    /\ cmd' = c
    /\ wm_id' = w
    /\ exported' = {}
    /\ cleanup_returned' = FALSE
    /\ notified' = FALSE
    /\ session_exported' = IF tracking /\ cleanup_returned THEN {}
                           ELSE session_exported
    /\ UNCHANGED outside

\* prepare_env raises: the except branch of 'aux prepare-env' prints the
\* error and calls cleanup_env()
raise_in_prepare_env(msg) ==
    /\ error' = msg
    /\ pc' = "ce_list"
    /\ exit_code' = Running
    /\ ClearLocals


\* ------------------------------------------------------------------------
\* aux prepare-env
\* ------------------------------------------------------------------------
\* the return code of the shell is not looked at
shell_error_mark_only(mark, returncode) ==
    IF mark < 0 THEN "No env mark in shell output!" ELSE ""

\* mark_position < 0: raise "No env mark in shell output!";
\* returncode != 0: raise "Shell returned {returncode}!"; "" when neither
shell_error(mark, returncode) ==
    IF mark < 0 THEN "No env mark in shell output!"
    ELSE IF returncode # 0 THEN "Shell returned 1!"
    ELSE ""

\* prepare_env from its first line to the computation of cleanup_varnames:
\* run the shell code, find the mark, parse env_post, ask for the names of
\* the systemd user manager, compute set_env, unset_varnames and
\* cleanup_varnames.  Nothing outside the process changes here.
\* post is the dict parsed from the text after the mark.
prepare_env_compute(PreSet, PostSet) ==
    \E w \in WmIds :
      /\ start_invocation("prepare-env", w)
      /\ UNCHANGED globals
      /\ \E mark \in {-1, 0}, returncode \in {0, 1} :
           /\ mark_position' = mark
           /\ shell_returncode' = returncode
           /\ wm_active' = FALSE
           /\ returncode_local' = returncode
           /\ \/ /\ shell_error(mark, returncode) # ""
                 /\ raise_in_prepare_env(shell_error(mark, returncode))
              \/ /\ shell_error(mark, returncode) = ""
                 /\ raise_in_prepare_env(
                        "systemctl --user show-environment returned 1")
              \/ /\ shell_error(mark, returncode) = ""
                 /\ \E pre \in PreSet, post \in PostSet :
                      /\ pc' = "pe_write"
                      /\ exit_code' = Running
                      /\ error' = ""
                      /\ environ' = pre
                      /\ env_pre' = pre
                      /\ env_post' = post
                      /\ systemd_varnames' = get_systemd_varnames
                      /\ set_env_raw' = raw_difference(pre, post)
                      /\ set_env' = compute_set_env(pre, post)
                      /\ unset_varnames' =
                             compute_unset_varnames(pre, post, get_systemd_varnames)
                      /\ cleanup_varnames' =
                             compute_cleanup_varnames(compute_set_env(pre, post))
                      /\ UNCHANGED <<cleanup_files, current_cleanup_varnames,
                                     export_vars>>

\* prepare_env: read the cleanup file if it exists, write it back with
\* cleanup_varnames added
prepare_env_write ==
    /\ pc = "pe_write"
    /\ UNCHANGED <<shell_result, answers, session_exported, outside>>
    /\ UNCHANGED <<sysenv, cmd, wm_id, exported, cleanup_returned,
                   notified>>
    /\ \/ /\ raise_in_prepare_env("cleanup file I/O error")
          /\ UNCHANGED ledger
       \/ /\ ledger' = write_cleanup_file(wm_id,
                 (IF isfile(wm_id) THEN read_cleanup_file(wm_id) ELSE {})
                     \cup cleanup_varnames)
          /\ pc' = "pe_import"
          /\ UNCHANGED <<exit_code, locals, error>>

\* prepare_env: systemctl --user import-environment sorted(set_env.keys()),
\* run in env_post
prepare_env_import ==
    /\ pc = "pe_import"
    /\ UNCHANGED <<shell_result, wm_active, session_exported, outside>>
    /\ UNCHANGED <<ledger, cmd, wm_id, cleanup_returned, notified>>
    /\ \E returncode \in {0, 1} :
       \E applied \in applied_names(returncode, DOMAIN set_env) :
         /\ sysenv' = import_environment(sysenv, applied, env_post)
         /\ returncode_local' = returncode
         /\ exported' = exported \cup applied
         /\ IF returncode # 0
              THEN raise_in_prepare_env(
                       "systemctl --user import-environment returned 1")
              ELSE /\ pc' = "pe_dbus"
                   /\ UNCHANGED <<exit_code, locals, error>>

\* prepare_env: dbus-update-activation-environment --systemd
\* sorted(set_env.keys()), run in env_post
prepare_env_dbus ==
    /\ pc = "pe_dbus"
    /\ UNCHANGED <<shell_result, wm_active, session_exported, outside>>
    /\ UNCHANGED <<ledger, cmd, wm_id, cleanup_returned, notified>>
    /\ \E returncode \in {0, 1} :
       \E applied \in applied_names(returncode, DOMAIN set_env) :
         /\ sysenv' = import_environment(sysenv, applied, env_post)
         /\ returncode_local' = returncode
         /\ exported' = exported \cup applied
         /\ IF returncode # 0
              THEN raise_in_prepare_env(
                       "dbus-update-activation-environment --systemd returned 1")
              ELSE /\ pc' = "pe_unset"
                   /\ UNCHANGED <<exit_code, locals, error>>

\* prepare_env: if unset_varnames: systemctl --user unset-environment;
\* then back in __main__: sys.exit(0)
prepare_env_unset ==
    /\ pc = "pe_unset"
    /\ UNCHANGED <<shell_result, wm_active, outside>>
    /\ UNCHANGED <<ledger, cmd, wm_id, exported, cleanup_returned,
                   notified>>
    /\ IF unset_varnames = {}
         THEN /\ sys_exit(0)
              /\ session_exported' = track(exported)
              /\ UNCHANGED <<sysenv, error, returncode_local>>
         ELSE \E returncode \in {0, 1} :
              \E applied \in applied_names(returncode, unset_varnames) :
                /\ sysenv' = unset_environment(sysenv, applied)
                /\ returncode_local' = returncode
                /\ IF returncode # 0
                     THEN /\ raise_in_prepare_env(
                              "systemctl --user unset-environment returned 1")
                          /\ UNCHANGED session_exported
                     ELSE /\ sys_exit(0)
                          /\ session_exported' = track(exported)
                          /\ UNCHANGED error

\* ------------------------------------------------------------------------
\* cleanup_env, called by 'aux cleanup-env' and by the except branch of
\* 'aux prepare-env'
\* ------------------------------------------------------------------------
\* cleanup_env is called whatever is_active answers
aux_cleanup_env_unguarded ==
    /\ start_invocation("cleanup-env", "")
    /\ error' = ""
    /\ mark_position' = -1
    /\ shell_returncode' = 0
    /\ returncode_local' = 0
    /\ UNCHANGED globals
    /\ \E active \in BOOLEAN :
         /\ wm_active' = active
         /\ pc' = "ce_list"
         /\ exit_code' = Running
         /\ UNCHANGED locals

\* aux cleanup-env: refuse when a WM is active, else call cleanup_env;
\* is_active raises, outside of any try, when list-units returns non-zero
aux_cleanup_env ==
    /\ start_invocation("cleanup-env", "")
    /\ error' = ""
    /\ mark_position' = -1
    /\ shell_returncode' = 0
    /\ returncode_local' = 0
    /\ UNCHANGED globals
    /\ \E active \in BOOLEAN, list_units_returncode \in {0, 1} :
         /\ wm_active' = active
         /\ IF list_units_returncode # 0 \/ active
              THEN sys_exit(1)
              ELSE /\ pc' = "ce_list"
                   /\ exit_code' = Running
                   /\ UNCHANGED locals

\* cleanup_env: collect the cleanup files of the runtime dir; with none,
\* warn and sys.exit(0); else read them all
cleanup_env_list ==
    /\ pc = "ce_list"
    /\ UNCHANGED <<shell_result, answers, session_exported, outside>>
    /\ UNCHANGED <<globals, cmd, wm_id, history>>
    /\ IF DOMAIN ledger = {}
         THEN sys_exit(0)
         ELSE /\ cleanup_files' = DOMAIN ledger
              /\ current_cleanup_varnames' = read_cleanup_files(DOMAIN ledger)
              /\ pc' = "ce_show"
              /\ UNCHANGED <<exit_code, environ, env_pre, env_post,
                             systemd_varnames, set_env_raw, set_env,
                             unset_varnames, cleanup_varnames, export_vars>>

\* the names read from the cleanup files left out
compute_removal_without_files(current, known) ==
    (always_cleanup \ never_cleanup) \cap known

\* cleanup_varnames = current_cleanup_varnames | always_cleanup
\*                    - never_cleanup & systemd_varnames
\* (Python: '-' binds tighter than '&', '&' tighter than '|')
compute_removal(current, known) ==
    current \cup ((always_cleanup \ never_cleanup) \cap known)

\* cleanup_env: get_systemd_varnames (raises on a failing command), then
\* the set of names to remove
cleanup_env_show ==
    /\ pc = "ce_show"
    /\ UNCHANGED <<shell_result, answers, session_exported, outside>>
    /\ UNCHANGED <<globals, cmd, wm_id, history>>
    /\ \/ sys_exit(1)
       \/ /\ systemd_varnames' = get_systemd_varnames
          /\ cleanup_varnames' =
                 compute_removal(current_cleanup_varnames,
                                 get_systemd_varnames)
          /\ pc' = IF compute_removal(current_cleanup_varnames,
                                      get_systemd_varnames) = {}
                     THEN "ce_remove" ELSE "ce_dbus"
          /\ UNCHANGED <<exit_code, environ, env_pre, env_post, set_env_raw,
                         set_env, unset_varnames, cleanup_files,
                         current_cleanup_varnames, export_vars>>

\* cleanup_env: dbus-update-activation-environment --systemd NAME= ...;
\* a non-zero return is only printed
cleanup_env_dbus ==
    /\ pc = "ce_dbus"
    /\ UNCHANGED <<shell_result, wm_active, session_exported, outside>>
    /\ UNCHANGED <<ledger, cmd, wm_id, exit_code, locals, history>>
    /\ \E returncode \in {0, 1} :
       \E applied \in applied_names(returncode, cleanup_varnames) :
         /\ sysenv' = nullify_environment(sysenv, applied)
         /\ returncode_local' = returncode
         /\ pc' = "ce_unset"

\* the return code of unset-environment is only printed
cleanup_env_unset_unchecked ==
    /\ pc = "ce_unset"
    /\ UNCHANGED <<shell_result, wm_active, session_exported, outside>>
    /\ UNCHANGED <<ledger, cmd, wm_id, history>>
    /\ \E returncode \in {0, 1} :
       \E applied \in applied_names(returncode, cleanup_varnames) :
         /\ sysenv' = unset_environment(sysenv, applied)
         /\ returncode_local' = returncode
         /\ pc' = "ce_remove"
         /\ UNCHANGED <<exit_code, locals>>

\* cleanup_env: systemctl --user unset-environment sorted(cleanup_varnames);
\* a non-zero return raises
cleanup_env_unset ==
    /\ pc = "ce_unset"
    /\ UNCHANGED <<shell_result, wm_active, session_exported, outside>>
    /\ UNCHANGED <<ledger, cmd, wm_id, history>>
    /\ \E returncode \in {0, 1} :
       \E applied \in applied_names(returncode, cleanup_varnames) :
         /\ sysenv' = unset_environment(sysenv, applied)
         /\ returncode_local' = returncode
         /\ IF returncode # 0
              THEN sys_exit(1)
              ELSE /\ pc' = "ce_remove"
                   /\ UNCHANGED <<exit_code, locals>>

\* cleanup_env: os.remove every cleanup file; then back in __main__:
\* sys.exit(0) for 'aux cleanup-env', sys.exit(1) in the except branch of
\* 'aux prepare-env'
cleanup_env_remove ==
    /\ pc = "ce_remove"
    /\ UNCHANGED <<shell_result, answers, session_exported, outside>>
    /\ UNCHANGED <<sysenv, cmd, wm_id, error, exported, notified>>
    /\ ledger' = remove_cleanup_files(cleanup_files)
    /\ cleanup_returned' = TRUE
    /\ sys_exit(IF cmd = "prepare-env" THEN 1 ELSE 0)


\* ------------------------------------------------------------------------
\* finalize
\* ------------------------------------------------------------------------
\* names finalize may find in its environment, and names given as arguments
FinEnvNames == {"WAYLAND_DISPLAY", "DISPLAY", "SSH_AUTH_SOCK"}
FinArgNames == {"DISPLAY", "SSH_AUTH_SOCK"}

\* environments of finalize: WAYLAND_DISPLAY may be unset, empty or set
FinEnvirons ==
    {e \in Snapshots(FinEnvNames, {EmptyValue} \cup LifeValues) :
        \A k \in DOMAIN e : k # "WAYLAND_DISPLAY" => e[k] # EmptyValue}

\* for var in [...]: if os.getenv(var, None) != None and var not in
\* export_vars: export_vars.append(var)
RECURSIVE export_vars_loop(_, _, _)
export_vars_loop(candidates, acc, env) ==
    IF candidates = <<>> THEN acc
    ELSE export_vars_loop(Tail(candidates),
                          IF /\ Head(candidates) \in DOMAIN env
                             /\ Head(candidates) \notin set(acc)
                              THEN Append(acc, Head(candidates))
                              ELSE acc,
                          env)

compute_export_vars(env, additional_vars) ==
    export_vars_loop(<<"WAYLAND_DISPLAY", "DISPLAY">> \o sorted(additional_vars),
                     <<>>, env)

\* WAYLAND_DISPLAY is not looked at
finalize_refuses_file_only(env, active) ==
    \/ active = ""
    \/ ~isfile(active)

\* finalize ends with 1 before it writes: WAYLAND_DISPLAY is not defined or
\* empty, get_active_wm_id raises, or the cleanup file does not exist
finalize_refuses(env, active) ==
    \/ "WAYLAND_DISPLAY" \notin DOMAIN env
    \/ env["WAYLAND_DISPLAY"] = EmptyValue
    \/ active = ""
    \/ ~isfile(active)

\* finalize up to the rewrite of the cleanup file.  active is the answer of
\* get_active_wm_id, "" when it raises
finalize_ledger ==
    \E env \in FinEnvirons, additional_vars \in SUBSET FinArgNames,
       active \in WmIds \cup {""} :
      /\ start_invocation("finalize", active)
      /\ error' = ""
      /\ mark_position' = -1
      /\ shell_returncode' = 0
      /\ wm_active' = (active # "")
      /\ returncode_local' = 0
      /\ UNCHANGED sysenv
      /\ IF finalize_refuses(env, active)
           THEN /\ sys_exit(1)
                /\ UNCHANGED ledger
           ELSE /\ ledger' = write_cleanup_file(active,
                       read_cleanup_file(active)
                           \cup set(compute_export_vars(env, additional_vars)))
                /\ environ' = env
                /\ export_vars' = compute_export_vars(env, additional_vars)
                /\ current_cleanup_varnames' = read_cleanup_file(active)
                /\ pc' = "fin_dbus"
                /\ exit_code' = Running
                /\ UNCHANGED <<env_pre, env_post, systemd_varnames,
                               set_env_raw, set_env, unset_varnames,
                               cleanup_varnames, cleanup_files>>

\* the return code of dbus-update-activation-environment is not looked at
finalize_dbus_unchecked ==
    /\ pc = "fin_dbus"
    /\ UNCHANGED <<shell_result, wm_active, session_exported, outside>>
    /\ UNCHANGED <<ledger, cmd, wm_id, error, cleanup_returned,
                   notified>>
    /\ \E returncode \in {0, 1} :
       \E applied \in applied_names(returncode, set(export_vars)) :
         /\ sysenv' = import_environment(sysenv, applied, environ)
         /\ returncode_local' = returncode
         /\ exported' = exported \cup applied
         /\ pc' = "fin_import"
         /\ UNCHANGED <<exit_code, locals>>

\* finalize: dbus-update-activation-environment --systemd export_vars
finalize_dbus ==
    /\ pc = "fin_dbus"
    /\ UNCHANGED <<shell_result, wm_active, session_exported, outside>>
    /\ UNCHANGED <<ledger, cmd, wm_id, error, cleanup_returned,
                   notified>>
    /\ \E returncode \in {0, 1} :
       \E applied \in applied_names(returncode, set(export_vars)) :
         /\ sysenv' = import_environment(sysenv, applied, environ)
         /\ returncode_local' = returncode
         /\ exported' = exported \cup applied
         /\ IF returncode # 0
              THEN sys_exit(1)
              ELSE /\ pc' = "fin_import"
                   /\ UNCHANGED <<exit_code, locals>>

\* finalize: systemctl --user import-environment export_vars
finalize_import ==
    /\ pc = "fin_import"
    /\ UNCHANGED <<shell_result, wm_active, session_exported, outside>>
    /\ UNCHANGED <<ledger, cmd, wm_id, error, cleanup_returned,
                   notified>>
    /\ \E returncode \in {0, 1} :
       \E applied \in applied_names(returncode, set(export_vars)) :
         /\ sysenv' = import_environment(sysenv, applied, environ)
         /\ returncode_local' = returncode
         /\ exported' = exported \cup applied
         /\ IF returncode # 0
              THEN sys_exit(1)
              ELSE /\ pc' = "fin_notify"
                   /\ UNCHANGED <<exit_code, locals>>

\* finalize: os.execlp('systemd-notify', 'systemd-notify', '--ready'); the
\* exit status is that of systemd-notify
finalize_notify ==
    /\ pc = "fin_notify"
    /\ UNCHANGED <<shell_result, answers, outside>>
    /\ UNCHANGED <<globals, cmd, wm_id, error, exported,
                   cleanup_returned>>
    /\ notified' = TRUE
    /\ \E returncode \in {0, 1} :
         /\ sys_exit(returncode)
         /\ session_exported' = IF returncode = 0 THEN track(exported)
                                  ELSE session_exported

\* ------------------------------------------------------------------------
\* Specifications
\* ------------------------------------------------------------------------
NoFiles == [f \in {} |-> <<>>]

\* no invocation has run yet
InitLocals ==
    /\ pc = "idle"
    /\ cmd = ""
    /\ wm_id = ""
    /\ exit_code = Running
    /\ environ = EmptyDict
    /\ env_pre = EmptyDict
    /\ env_post = EmptyDict
    /\ systemd_varnames = {}
    /\ set_env_raw = EmptyDict
    /\ set_env = EmptyDict
    /\ unset_varnames = {}
    /\ cleanup_varnames = {}
    /\ cleanup_files = {}
    /\ current_cleanup_varnames = {}
    /\ export_vars = <<>>
    /\ error = ""
    /\ exported = {}
    /\ cleanup_returned = FALSE
    /\ notified = FALSE
    /\ mark_position = -1
    /\ shell_returncode = 0
    /\ wm_active = FALSE
    /\ returncode_local = 0
    /\ session_exported = {}
    /\ rerun = NoRerun

InitProcess ==
    /\ ledger = NoFiles
    /\ tracking = FALSE
    /\ InitLocals

\* no invocation of SpecRace
RaceIdle ==
    /\ upd_pc = [p \in Procs |-> "done"]
    /\ upd_kind = [p \in Procs |-> "finalize"]
    /\ upd_names = [p \in Procs |-> {}]
    /\ upd_current = [p \in Procs |-> {}]
    /\ upd_initial = {}

\* no cleanup file looked at as text
TextIdle ==
    /\ text = <<>>
    /\ text_before = <<>>
    /\ text_written = FALSE

\* what 'check may-start' asks: systemctl list-units, /proc/PPID/cmdline,
\* fgconsole, the command line and systemctl is-active graphical.target
NoProbes ==
    [list_units_returncode |-> 0, list_units_stdout |-> <<>>,
     cmdline_readable |-> FALSE, parent_cmdline |-> <<>>,
     fgconsole_stdout |-> <<>>, vtnr |-> <<>>, target_returncode |-> 0]

\* no 'check may-start' invocation
CheckIdle ==
    /\ check_pc = "idle"
    /\ probes = NoProbes
    /\ dealbreakers = <<>>
    /\ check_exit = Running

\* no 'stop' invocation
StopIdle ==
    /\ remove_units_arg = [given |-> FALSE, only |-> <<>>]
    /\ typed_units = {}
    /\ typed_before = {}
    /\ shared_subdirs = {}

\* nothing of the specifications added last
RestIdle == TextIdle /\ CheckIdle /\ StopIdle

\* no 'start' invocation
StartIdle ==
    /\ start_pc = "exited"
    /\ args_wm = <<>>
    /\ dry_run = FALSE
    /\ only_generate = FALSE
    /\ custom = FALSE
    /\ default_id = <<>>
    /\ unit_files = [u \in Units \cup Dirs |-> "absent"]
    /\ units_changed = FALSE
    /\ reloaded = FALSE
    /\ wm_service = FALSE
    /\ start_issued = FALSE
    /\ signal_received = ""
    /\ stop_issued = FALSE
    /\ stop_returncode = Running
    /\ start_exit = Running

\* the user manager starts out with or without a display name
Init ==
    /\ InitProcess
    /\ RaceIdle
    /\ StartIdle
    /\ RestIdle
    /\ sysenv \in Snapshots({"DISPLAY"}, LifeValues)

aux_prepare_env ==
    prepare_env_compute(Snapshots(LifeNames, LifeValues),
                        Snapshots(LifeNames, LifeValues))

Next ==
    \/ aux_prepare_env
    \/ prepare_env_write
    \/ prepare_env_import
    \/ prepare_env_dbus
    \/ prepare_env_unset
    \/ aux_cleanup_env
    \/ cleanup_env_list
    \/ cleanup_env_show
    \/ cleanup_env_dbus
    \/ cleanup_env_unset
    \/ cleanup_env_remove
    \/ finalize_ledger
    \/ finalize_dbus
    \/ finalize_import
    \/ finalize_notify

Spec == Init /\ [][Next]_vars

\* the computation of prepare_env alone, over every pair of snapshots of
\* EnvNames and every set of names the user manager may hold
InitRec ==
    /\ InitProcess
    /\ RaceIdle
    /\ StartIdle
    /\ RestIdle
    /\ sysenv \in Snapshots(EnvNames, LifeValues)

reconcile ==
    prepare_env_compute(Snapshots(EnvNames, RecValues),
                        Snapshots(EnvNames, RecValues))

NextRec == reconcile

SpecRec == InitRec /\ [][NextRec]_vars

\* ------------------------------------------------------------------------
\* Sessions: prepare-env and finalize that succeed, then cleanup-env
\* ------------------------------------------------------------------------
\* names of the sessions: one that no table of names holds, one to clean up
\* always
SessionNames == {"FOO", "DISPLAY"}

\* the step is not one in which prepare-env or finalize fails: no
\* exception in prepare_env, no exit status other than 0
succeeds ==
    /\ pc' # "ce_list"
    /\ pc' = "exited" => exit_code' = 0

session_prepare_env ==
    prepare_env_compute(Snapshots(SessionNames, LifeValues),
                        Snapshots(SessionNames, LifeValues))

\* the user manager starts out with or without the name no table holds;
\* the names exported are kept track of
InitSession ==
    /\ InitLocals
    /\ ledger = NoFiles
    /\ tracking = TRUE
    /\ RaceIdle
    /\ StartIdle
    /\ RestIdle
    /\ sysenv \in Snapshots({"FOO"}, LifeValues)

NextSession ==
    \/ session_prepare_env /\ succeeds
    \/ prepare_env_write /\ succeeds
    \/ prepare_env_import /\ succeeds
    \/ prepare_env_dbus /\ succeeds
    \/ prepare_env_unset /\ succeeds
    \/ finalize_ledger /\ succeeds
    \/ finalize_dbus /\ succeeds
    \/ finalize_import /\ succeeds
    \/ finalize_notify /\ succeeds
    \/ aux_cleanup_env
    \/ cleanup_env_list
    \/ cleanup_env_show
    \/ cleanup_env_dbus
    \/ cleanup_env_unset
    \/ cleanup_env_remove

SpecSession == InitSession /\ [][NextSession]_vars

\* ------------------------------------------------------------------------
\* The computation of prepare_env done twice
\* ------------------------------------------------------------------------
\* prepare_env computes again from the env_pre, env_post and names of the
\* user manager it had: lines 1415-1442 with the two iterations over sets
\* (the pairs of the raw difference, the names to exclude) in any order; the
\* loop over sorted(...) and the set expressions have no order to choose.
\* Names the dict does not hold are passed over by the exclusion loop, so
\* only the order of the names it holds is chosen.
reconcile_again ==
    /\ cmd = "prepare-env"
    /\ pc = "pe_write"
    /\ ~rerun.done
    /\ \E item_order \in Orders(items(env_post) \ items(env_pre)) :
         LET raw == dict_loop(item_order, EmptyDict)
             forced == force_export(raw, env_post)
         IN  \E pop_order \in
                   Orders((never_export \cup always_unset) \cap DOMAIN forced) :
               /\ set_env_raw' = raw
               /\ set_env' = exclude_export_loop(pop_order, forced)
               /\ unset_varnames' =
                      compute_unset_varnames(env_pre, env_post,
                                             get_systemd_varnames)
               /\ cleanup_varnames' =
                      compute_cleanup_varnames(
                          exclude_export_loop(pop_order, forced))
               /\ rerun' = [done |-> TRUE,
                            set_env |-> set_env,
                            unset_varnames |-> unset_varnames,
                            cleanup_varnames |-> cleanup_varnames,
                            item_order |-> item_order,
                            pop_order |-> pop_order]
    /\ UNCHANGED <<globals, control, history, shell_result, answers,
                   session_exported, tracking, race, startvars, rest, environ,
                   env_pre, env_post, systemd_varnames, cleanup_files,
                   current_cleanup_varnames, export_vars>>

InitTwice ==
    /\ InitProcess
    /\ RaceIdle
    /\ StartIdle
    /\ RestIdle
    /\ sysenv \in Snapshots({"DISPLAY"}, LifeValues)

NextTwice ==
    \/ reconcile
    \/ reconcile_again

SpecTwice == InitTwice /\ [][NextTwice]_vars

\* ------------------------------------------------------------------------
\* Two invocations rewriting the cleanup file of one session
\* ------------------------------------------------------------------------
\* the session both invocations belong to
RaceId == "sway"

\* what prepare_env can have as cleanup_varnames
PrepareContributions ==
    {compute_cleanup_varnames(d) : d \in Snapshots(LifeNames, LifeValues)}

\* what finalize can have as set(export_vars); WAYLAND_DISPLAY is set
FinalizeContributions ==
    {set(compute_export_vars(e, a)) :
        e \in {x \in FinEnvirons : /\ "WAYLAND_DISPLAY" \in DOMAIN x
                                   /\ x["WAYLAND_DISPLAY"] # EmptyValue},
        a \in SUBSET FinArgNames}

Contributions(kind) ==
    IF kind = "prepare-env" THEN PrepareContributions
    ELSE FinalizeContributions

\* if os.path.isfile(cleanup_file): read it into current_cleanup_varnames;
\* else: prepare_env takes set(), finalize prints an error and sys.exit(1)
upd_read(p) ==
    /\ upd_pc[p] = "read"
    /\ IF isfile(RaceId)
         THEN /\ upd_current' =
                     [upd_current EXCEPT ![p] = read_cleanup_file(RaceId)]
              /\ upd_pc' = [upd_pc EXCEPT ![p] = "write"]
         ELSE /\ upd_current' = [upd_current EXCEPT ![p] = {}]
              /\ upd_pc' = [upd_pc EXCEPT ![p] =
                                IF upd_kind[p] = "prepare-env" THEN "write"
                                ELSE "done"]
    /\ UNCHANGED <<globals, control, locals, history, shell_result,
                   answers, session_exported, tracking, rerun, startvars,
                   rest, upd_kind,
                   upd_names, upd_initial>>

\* with open(cleanup_file, 'w'): write sorted(current_cleanup_varnames |
\* cleanup_varnames), or | set(export_vars) in finalize
upd_write(p) ==
    /\ upd_pc[p] = "write"
    /\ ledger' = write_cleanup_file(RaceId, upd_current[p] \cup upd_names[p])
    /\ upd_pc' = [upd_pc EXCEPT ![p] = "done"]
    /\ UNCHANGED <<sysenv, control, locals, history, shell_result,
                   answers, session_exported, tracking, rerun, startvars,
                   rest, upd_kind,
                   upd_names, upd_current, upd_initial>>

\* an earlier prepare-env has written the cleanup file; 'aux prepare-env'
\* and 'finalize', or two 'finalize', are about to read it
InitRace ==
    /\ InitLocals
    /\ tracking = FALSE
    /\ StartIdle
    /\ RestIdle
    /\ sysenv = EmptyDict
    /\ upd_initial \in PrepareContributions
    /\ ledger = [f \in {RaceId} |-> sorted(upd_initial)]
    /\ upd_kind \in {[p \in Procs |-> IF p = 1 THEN k ELSE "finalize"] :
                        k \in {"prepare-env", "finalize"}}
    /\ upd_names \in [Procs -> PrepareContributions \cup FinalizeContributions]
    /\ \A p \in Procs : upd_names[p] \in Contributions(upd_kind[p])
    /\ upd_current = [p \in Procs |-> {}]
    /\ upd_pc = [p \in Procs |-> "read"]

NextRace == \E p \in Procs : upd_read(p) \/ upd_write(p)

SpecRace == InitRace /\ [][NextRace]_vars


\* ------------------------------------------------------------------------
\* start
\* ------------------------------------------------------------------------
\* strings are lists of characters
select == <<"s", "e", "l", "e", "c", "t">>
default == <<"d", "e", "f", "a", "u", "l", "t">>
dot_desktop == <<".", "d", "e", "s", "k", "t", "o", "p">>

\* the characters of [a-zA-Z0-9_.-]
AllowedChars ==
    {"a", "b", "c", "d", "e", "f", "g", "h", "i", "j", "k", "l", "m", "n",
     "o", "p", "q", "r", "s", "t", "u", "v", "w", "x", "y", "z",
     "A", "B", "C", "D", "E", "F", "G", "H", "I", "J", "K", "L", "M", "N",
     "O", "P", "Q", "R", "S", "T", "U", "V", "W", "X", "Y", "Z",
     "0", "1", "2", "3", "4", "5", "6", "7", "8", "9", "_", ".", "-"}

\* re.search('^[a-zA-Z0-9_.-]+$', id): '$' matches at the end and also
\* before a newline that ends the string
conforms(id) ==
    LET body == IF Len(id) > 0 /\ id[Len(id)] = "\n"
                  THEN SubSeq(id, 1, Len(id) - 1) ELSE id
    IN  /\ Len(body) > 0
        /\ \A i \in DOMAIN body : body[i] \in AllowedChars

\* id.endswith('.desktop')
endswith_desktop(id) ==
    /\ Len(id) >= Len(dot_desktop)
    /\ SubSeq(id, Len(id) - Len(dot_desktop) + 1, Len(id)) = dot_desktop

\* line.strip() for the first line of the default-id file that is not blank
WhiteSpace == {" ", "\n", "\t"}
RECURSIVE lstrip(_)
lstrip(l) ==
    IF l # <<>> /\ Head(l) \in WhiteSpace THEN lstrip(Tail(l)) ELSE l
RECURSIVE rstrip(_)
rstrip(l) ==
    IF l # <<>> /\ l[Len(l)] \in WhiteSpace
      THEN rstrip(SubSeq(l, 1, Len(l) - 1)) ELSE l
strip(l) == rstrip(lstrip(l))

\* get_default_de: '' when there is no file or no such line
get_default_de == strip(default_id)

\* names of the desktop entries of wayland-sessions: a file name is any
\* string ending in .desktop
EntryIds == {<<"a">> \o dot_desktop, <<"a", " ", "b">> \o dot_desktop}

\* args.wm as given on the command line
ArgIds ==
    {<<>>, <<"w", "m">>, <<"w", " ", "m">>, <<"w", "m", "\n">>,
     <<"a">> \o dot_desktop, select, default}

\* the parameters of stop_wm_and_exit, and the arguments Python calls a
\* signal handler with
stop_wm_and_exit_params == <<>>
handler_args == <<"signum", "frame">>
Signals == {"SIGINT", "SIGTERM", "SIGHUP"}

\* sys.exit(code) in 'start', or the interpreter ending on an uncaught
\* exception (1), or the end of the script (0)
start_sys_exit(code) ==
    /\ start_pc' = "exited"
    /\ start_exit' = code

\* what the aux commands and their ledger work on
aux_state == <<globals, control, locals, history, shell_result, answers,
               session_exported, tracking, rerun, race>>

lifecycle == <<aux_state, rest>>

\* select_de: the entries found, the answer of whiptail ('' when cancelled)
\* or the saved default when asked for it and among the choices; raises
\* with fewer than two choices
select_de(choices) ==
    IF Cardinality(choices) < 2 THEN {}
    ELSE IF /\ get_default_de # <<>>
            /\ get_default_de \in choices
            /\ args_wm = default
      THEN {get_default_de}
    ELSE choices \cup {<<>>}

\* start: if args.wm in ['select', 'default']: select_de, save_default_de,
\* args.wm = select_wm_id
start_select ==
    /\ start_pc = "begin"
    /\ UNCHANGED <<lifecycle, dry_run, only_generate, custom, unit_files,
                   units_changed, reloaded, wm_service, start_issued,
                   signal_received, stop_issued, stop_returncode>>
    /\ IF args_wm \notin {select, default}
         THEN /\ start_pc' = "fill"
              /\ UNCHANGED <<args_wm, default_id, start_exit>>
         ELSE \E choices \in SUBSET EntryIds :
              \/ /\ select_de(choices) = {}
                 /\ start_sys_exit(1)
                 /\ UNCHANGED <<args_wm, default_id>>
              \/ \E select_wm_id \in select_de(choices) :
                   IF select_wm_id = <<>>
                     THEN /\ start_sys_exit(1)
                          /\ UNCHANGED <<args_wm, default_id>>
                     ELSE \/ /\ ~dry_run
                             /\ start_sys_exit(1)
                             /\ UNCHANGED <<args_wm, default_id>>
                          \/ /\ default_id' = IF dry_run THEN default_id
                                              ELSE select_wm_id
                             /\ args_wm' = select_wm_id
                             /\ start_pc' = "fill"
                             /\ UNCHANGED start_exit

\* fill_wm_globals: wm_id = args.wm, checked; found is what get_de or
\* which answer
start_fill_wm_globals ==
    /\ start_pc = "fill"
    /\ UNCHANGED <<lifecycle, args_wm, dry_run, only_generate, custom,
                   default_id, unit_files, units_changed, reloaded,
                   wm_service, start_issued, signal_received, stop_issued,
                   stop_returncode>>
    /\ IF args_wm = <<>> \/ ~conforms(args_wm)
         THEN start_sys_exit(1)
         ELSE \E found \in BOOLEAN :
                IF found
                  THEN start_pc' = "active" /\ UNCHANGED start_exit
                  ELSE start_sys_exit(1)

\* the answer of is_active is not looked at
start_is_active_unchecked ==
    /\ start_pc = "active"
    /\ UNCHANGED <<lifecycle, args_wm, dry_run, only_generate, custom,
                   default_id, unit_files, units_changed, reloaded,
                   wm_service, start_issued, signal_received, stop_issued,
                   stop_returncode>>
    /\ \E returncode \in {0, 1} :
         IF returncode # 0
           THEN start_sys_exit(1)
           ELSE start_pc' = "generate" /\ UNCHANGED start_exit

\* start: if is_active(verbose=True) and not args.dry_run: sys.exit(1);
\* is_active raises when list-units returns non-zero
start_is_active ==
    /\ start_pc = "active"
    /\ UNCHANGED <<lifecycle, args_wm, dry_run, only_generate, custom,
                   default_id, unit_files, units_changed, reloaded,
                   wm_service, start_issued, signal_received, stop_issued,
                   stop_returncode>>
    /\ \E returncode \in {0, 1} :
         IF returncode # 0 \/ (wm_service /\ ~dry_run)
           THEN start_sys_exit(1)
           ELSE start_pc' = "generate" /\ UNCHANGED start_exit

\* if not os.path.isdir(check_dir): os.mkdir(check_dir)
mkdir(files, dir) ==
    IF dir = "" \/ files[dir] # "absent" THEN files
    ELSE [files EXCEPT ![dir] = "present"]

\* the directories are made and the file is written whatever dry_run says
update_unit_always(files, unit) ==
    [mkdir(mkdir(files, "systemd/user"), dirname(unit))
       EXCEPT ![unit] = "current"]

\* update_unit: with dry_run off, the missing directories are made and the
\* file is written when its data differs
update_unit(files, unit) ==
    IF dry_run THEN files
    ELSE IF files[unit] = "current"
      THEN mkdir(mkdir(files, "systemd/user"), dirname(unit))
    ELSE [mkdir(mkdir(files, "systemd/user"), dirname(unit))
            EXCEPT ![unit] = "current"]

\* remove_unit: with dry_run off, the file is removed when it exists, and
\* its subdirectory when nothing else is in it
remove_unit(files, unit) ==
    IF dry_run THEN files
    ELSE IF dirname(unit) # "" /\ files[dirname(unit)] = "present"
      THEN [files EXCEPT ![unit] = "absent", ![dirname(unit)] = "absent"]
    ELSE [files EXCEPT ![unit] = "absent"]

\* remove_unit: print_warning(f"Subdir {subdirunit_subdir_path} is not
\* empty") names a variable that does not exist, a NameError, when the
\* subdirectory holds other files
remove_unit_raises(files, unit) ==
    /\ dirname(unit) # ""
    /\ files[dirname(unit)] = "shared"

\* generate_units: the units are updated; the drop-in of the WM is updated
\* when the command line customises the WM, removed otherwise
generate_units(files) ==
    LET generic == update_unit(files, "wayland-wm@.service")
    IN  IF custom
          THEN update_unit(generic, "wayland-wm@ID.service.d/custom.conf")
          ELSE remove_unit(generic, "wayland-wm@ID.service.d/custom.conf")

\* generate_units ends with the NameError of remove_unit
generate_units_raises(files) ==
    /\ ~custom
    /\ remove_unit_raises(files, "wayland-wm@ID.service.d/custom.conf")

\* units_changed after generate_units: some update_unit found other data,
\* or remove_unit found the file
generate_units_changed(files) ==
    \/ files["wayland-wm@.service"] # "current"
    \/ custom /\ files["wayland-wm@ID.service.d/custom.conf"] # "current"
    \/ ~custom /\ files["wayland-wm@ID.service.d/custom.conf"] # "absent"

\* start: generate_units(); if units_changed: reload_systemd(); if
\* args.only_generate: sys.exit(0).  self_path and get_unit_path call
\* sys.exit(0) when the program is not in PATH or XDG_RUNTIME_DIR is empty;
\* reload_systemd raises when daemon-reload returns non-zero
start_generate_units ==
    /\ start_pc = "generate"
    /\ UNCHANGED <<lifecycle, args_wm, dry_run, only_generate, custom,
                   default_id, wm_service, start_issued, signal_received,
                   stop_issued, stop_returncode>>
    /\ \E self_found \in BOOLEAN, runtime_dir \in BOOLEAN :
         IF ~self_found \/ ~runtime_dir
           THEN /\ start_sys_exit(0)
                /\ UNCHANGED <<unit_files, units_changed, reloaded>>
           ELSE /\ unit_files' = generate_units(unit_files)
                /\ IF generate_units_raises(unit_files)
                     THEN /\ units_changed' =
                               generate_units_changed(unit_files)
                          /\ start_sys_exit(1)
                          /\ UNCHANGED reloaded
                   ELSE IF generate_units_changed(unit_files) /\ ~dry_run
                     THEN \E returncode \in {0, 1} :
                            /\ reloaded' = TRUE
                            /\ units_changed' = (returncode # 0)
                            /\ IF returncode # 0 THEN start_sys_exit(1)
                               ELSE IF only_generate THEN start_sys_exit(0)
                               ELSE /\ start_pc' = "target"
                                    /\ UNCHANGED start_exit
                     ELSE /\ units_changed' = FALSE
                          /\ UNCHANGED reloaded
                          /\ IF only_generate THEN start_sys_exit(0)
                             ELSE /\ start_pc' = "target"
                                  /\ UNCHANGED start_exit

\* start: systemctl is-active -q graphical.target; on non-zero the warning
\* is followed by time.speep(3), an AttributeError; dry run ends here; else
\* the handlers are installed and systemctl --user start --wait is run
start_wm ==
    /\ start_pc = "target"
    /\ UNCHANGED <<lifecycle, args_wm, dry_run, only_generate, custom,
                   default_id, unit_files, units_changed, reloaded,
                   signal_received, stop_issued, stop_returncode>>
    /\ \E returncode \in {0, 1} :
         IF returncode # 0
           THEN start_sys_exit(1) /\ UNCHANGED <<wm_service, start_issued>>
           ELSE IF dry_run
           THEN start_sys_exit(0) /\ UNCHANGED <<wm_service, start_issued>>
           ELSE /\ start_issued' = TRUE
                /\ wm_service' = TRUE
                /\ start_pc' = "wait"
                /\ UNCHANGED start_exit

\* the WM service ends by itself or fails to start
wm_service_ends ==
    /\ start_pc = "wait"
    /\ wm_service
    /\ wm_service' = FALSE
    /\ UNCHANGED <<lifecycle, start_pc, args_wm, dry_run, only_generate,
                   custom, default_id, unit_files, units_changed, reloaded,
                   start_issued, signal_received, stop_issued,
                   stop_returncode, start_exit>>

\* start: systemctl --user start --wait returns; "WM service stopped" is
\* printed and the script ends
start_wait_returns ==
    /\ start_pc = "wait"
    /\ ~wm_service
    /\ start_sys_exit(0)
    /\ UNCHANGED <<lifecycle, args_wm, dry_run, only_generate, custom,
                   default_id, unit_files, units_changed, reloaded,
                   wm_service, start_issued, signal_received, stop_issued,
                   stop_returncode>>

\* stop_wm: if is_active(): systemctl --user stop 'wayland-wm@*.service'
\* unless dry_run; returns the returncode, 0 when nothing was run
stop_wm(returncode) ==
    IF wm_service /\ ~dry_run
      THEN /\ stop_issued' = TRUE
           /\ stop_returncode' = returncode
           /\ wm_service' = (returncode # 0)
      ELSE /\ stop_returncode' = 0
           /\ UNCHANGED <<stop_issued, wm_service>>

\* a signal arrives while start waits: Python calls the handler with
\* handler_args; a call with the wrong number of arguments is a TypeError
\* that ends the interpreter; else stop_wm_and_exit: sys.exit(stop_wm())
signal_handler ==
    /\ start_pc = "wait"
    /\ \E sig \in Signals : signal_received' = sig
    /\ UNCHANGED <<lifecycle, args_wm, dry_run, only_generate, custom,
                   default_id, unit_files, units_changed, reloaded,
                   start_issued>>
    /\ IF Len(handler_args) # Len(stop_wm_and_exit_params)
         THEN /\ start_sys_exit(1)
              /\ UNCHANGED <<wm_service, stop_issued, stop_returncode>>
         ELSE \E returncode \in {0, 1} :
                /\ stop_wm(returncode)
                /\ start_sys_exit(stop_returncode')

\* a 'start' invocation with any command line, saved default, unit files
\* and WM service state
InitStart ==
    /\ InitProcess
    /\ RaceIdle
    /\ RestIdle
    /\ sysenv = EmptyDict
    /\ start_pc = "begin"
    /\ args_wm \in ArgIds
    /\ dry_run \in BOOLEAN
    /\ only_generate \in BOOLEAN
    /\ custom \in BOOLEAN
    /\ default_id \in {<<>>, <<"a">> \o dot_desktop}
    /\ unit_files \in UnitTrees
    /\ units_changed = FALSE
    /\ reloaded = FALSE
    /\ wm_service \in BOOLEAN
    /\ start_issued = FALSE
    /\ signal_received = ""
    /\ stop_issued = FALSE
    /\ stop_returncode = Running
    /\ start_exit = Running

NextStart ==
    \/ start_select
    \/ start_fill_wm_globals
    \/ start_is_active
    \/ start_generate_units
    \/ start_wm
    \/ wm_service_ends
    \/ start_wait_returns
    \/ signal_handler

SpecStart == InitStart /\ [][NextStart]_vars

\* ------------------------------------------------------------------------
\* The cleanup file as text
\* ------------------------------------------------------------------------
\* characters a cleanup file is made of here, in the order of their codes
CharOrder == <<"\n", " ", "A", "B">>
TextChars == set(CharOrder)

\* names prepare_env or finalize can add
TextNames == {<<"A">>, <<"B">>, <<"A", "B">>}

\* the files of at most n characters
Texts(n) == UNION {[1 .. k -> TextChars] : k \in 0 .. n}

\* readlines(): the lines of the text, cut after each newline (the newline
\* itself is left out here, strip() removes it)
RECURSIVE readlines_loop(_, _, _)
readlines_loop(chars, line, lines) ==
    IF chars = <<>>
      THEN IF line = <<>> THEN lines ELSE Append(lines, line)
    ELSE IF Head(chars) = "\n"
      THEN readlines_loop(Tail(chars), <<>>, Append(lines, line))
    ELSE readlines_loop(Tail(chars), Append(line, Head(chars)), lines)

readlines(t) == readlines_loop(t, <<>>, <<>>)

\* blank lines are kept
read_text_keep_blank(t) == {strip(l) : l \in set(readlines(t))}

\* {l.strip() for l in open_cleanup_file.readlines() if l.strip()}
read_text(t) == {strip(l) : l \in set(readlines(t))} \ {<<>>}

\* a < b for strings
RECURSIVE less(_, _)
less(a, b) ==
    IF a = <<>> THEN b # <<>>
    ELSE IF b = <<>> THEN FALSE
    ELSE IF Head(a) = Head(b) THEN less(Tail(a), Tail(b))
    ELSE (CHOOSE i \in DOMAIN CharOrder : CharOrder[i] = Head(a))
           < (CHOOSE i \in DOMAIN CharOrder : CharOrder[i] = Head(b))

\* sorted(names) for strings
RECURSIVE sorted_strings(_)
sorted_strings(S) ==
    IF S = {} THEN <<>>
    ELSE LET first == CHOOSE x \in S : \A y \in S \ {x} : less(x, y)
         IN  <<first>> \o sorted_strings(S \ {first})

\* '\n'.join(lines)
RECURSIVE join(_)
join(lines) ==
    IF lines = <<>> THEN <<>>
    ELSE IF Len(lines) = 1 THEN Head(lines)
    ELSE Head(lines) \o <<"\n">> \o join(Tail(lines))

\* open_cleanup_file.write('\n'.join(sorted(names)))
write_text(names) == join(sorted_strings(names))

\* prepare_env or finalize reads the file and writes it back with names
\* added
text_rewrite ==
    /\ \E names \in SUBSET TextNames :
         text' = write_text(read_text(text) \cup names)
    /\ text_before' = text
    /\ text_written' = TRUE
    /\ UNCHANGED <<aux_state, startvars, checkvars, stopvars>>

\* a cleanup file with any content
InitText ==
    /\ InitProcess
    /\ RaceIdle
    /\ StartIdle
    /\ sysenv = EmptyDict
    /\ CheckIdle
    /\ StopIdle
    /\ text \in Texts(MaxTextLen)
    /\ text_before = <<>>
    /\ text_written = FALSE

NextText == text_rewrite

SpecText == InitText /\ [][NextText]_vars

\* ------------------------------------------------------------------------
\* check may-start
\* ------------------------------------------------------------------------
\* str.isnumeric() holds of digits and of other numeric characters, which
\* int() does not take
Decimals == <<"1", "2">>
Numerics == set(Decimals) \cup {"²"}

\* what fgconsole can print
FgChars == Numerics \cup {"\n"}

\* s.startswith(c)
startswith(s, c) == s # <<>> /\ Head(s) = c

\* s.isnumeric()
isnumeric(s) == s # <<>> /\ \A i \in DOMAIN s : s[i] \in Numerics

\* int(s) raises ValueError
int_raises(s) == \E i \in DOMAIN s : s[i] \notin set(Decimals)

\* int(s) for decimal digits
RECURSIVE int(_)
int(s) ==
    IF s = <<>> THEN 0
    ELSE 10 * int(SubSeq(s, 1, Len(s) - 1))
           + (CHOOSE d \in DOMAIN Decimals : Decimals[d] = s[Len(s)])

\* the given numbers are the allowed ones, none by default
allowed_vtnr_as_given(vtnr) == set(vtnr)

\* allowed_vtnr = args.vtnr or [1]
allowed_vtnr(vtnr) == IF vtnr = <<>> THEN {1} ELSE set(vtnr)

\* sys.exit(code), or a traceback (1)
check_sys_exit(code) ==
    /\ check_pc' = "exited"
    /\ check_exit' = code

\* if is_active(): dealbreakers.append(...); is_active calls the undefined
\* raise_exception when list-units returns non-zero, a NameError
check_is_active ==
    /\ check_pc = "begin"
    /\ UNCHANGED <<aux_state, startvars, textvars, stopvars, probes>>
    /\ IF probes.list_units_returncode # 0
         THEN check_sys_exit(1) /\ UNCHANGED dealbreakers
         ELSE /\ dealbreakers' =
                   IF strip(probes.list_units_stdout) # <<>>
                     THEN Append(dealbreakers, "Another WM is running")
                     ELSE dealbreakers
              /\ check_pc' = "parent"
              /\ UNCHANGED check_exit

\* the parent's command line is read and stripped; 'except exception' names
\* a class that does not exist, a NameError on top of the first error
check_login_shell ==
    /\ check_pc = "parent"
    /\ UNCHANGED <<aux_state, startvars, textvars, stopvars, probes>>
    /\ IF ~probes.cmdline_readable
         THEN check_sys_exit(1) /\ UNCHANGED dealbreakers
         ELSE /\ dealbreakers' =
                   IF ~startswith(strip(probes.parent_cmdline), "-")
                     THEN Append(dealbreakers, "Not in login shell")
                     ELSE dealbreakers
              /\ check_pc' = "vt"
              /\ UNCHANGED check_exit

\* fgvt = stdout.strip(); isnumeric, int(fgvt), fgvt not in allowed_vtnr
check_foreground_vt ==
    /\ check_pc = "vt"
    /\ UNCHANGED <<aux_state, startvars, textvars, stopvars, probes>>
    /\ LET fgvt == strip(probes.fgconsole_stdout)
       IN  IF ~isnumeric(fgvt)
             THEN /\ dealbreakers' = Append(dealbreakers,
                        "Could not determine foreground VT")
                  /\ check_pc' = "target"
                  /\ UNCHANGED check_exit
           ELSE IF int_raises(fgvt)
             THEN check_sys_exit(1) /\ UNCHANGED dealbreakers
           ELSE /\ dealbreakers' =
                     IF int(fgvt) \notin allowed_vtnr(probes.vtnr)
                       THEN Append(dealbreakers,
                                "Foreground VT is not among allowed VTs")
                       ELSE dealbreakers
                /\ check_pc' = "target"
                /\ UNCHANGED check_exit

\* systemctl is-active -q graphical.target, then sys.exit(1) if
\* dealbreakers else sys.exit(0)
check_graphical_target ==
    /\ check_pc = "target"
    /\ UNCHANGED <<aux_state, startvars, textvars, stopvars, probes>>
    /\ dealbreakers' =
         IF probes.target_returncode # 0
           THEN Append(dealbreakers,
                    "System has not reached graphical.target")
           ELSE dealbreakers
    /\ check_sys_exit(IF dealbreakers' # <<>> THEN 1 ELSE 0)

\* command lines of the parent: a login shell, a shell, none, and two with
\* the dash elsewhere
ParentCmdlines ==
    {<<"-", "b">>, <<"b">>, <<>>, <<"b", "-">>, <<" ", "-", "b">>}

\* args.vtnr: the numbers after 'may-start', as integers
ArgVtnr == {<<>>, <<1>>, <<2>>, <<2, 1>>, <<12>>}

\* a 'check may-start' invocation with any answers
InitCheck ==
    /\ InitProcess
    /\ RaceIdle
    /\ StartIdle
    /\ TextIdle
    /\ StopIdle
    /\ sysenv = EmptyDict
    /\ check_pc = "begin"
    /\ probes \in
         [list_units_returncode : {0, 1},
          list_units_stdout : {<<>>, <<"\n">>, <<"u", "\n">>},
          cmdline_readable : BOOLEAN,
          parent_cmdline : ParentCmdlines,
          fgconsole_stdout :
              UNION {[1 .. k -> FgChars] : k \in 0 .. MaxOutLen},
          vtnr : ArgVtnr,
          target_returncode : {0, 1}]
    /\ dealbreakers = <<>>
    /\ check_exit = Running

NextCheck ==
    \/ check_is_active
    \/ check_login_shell
    \/ check_foreground_vt
    \/ check_graphical_target

SpecCheck == InitCheck /\ [][NextCheck]_vars

\* ------------------------------------------------------------------------
\* stop -r
\* ------------------------------------------------------------------------
\* the values of X-UWSMType: generic, and the identifiers of three WMs
generic == <<"g">>
UnitTypes == {generic, <<"a">>, <<"a", "b">>, <<"b">>}

\* what -r can be given
OnlyArgs == {<<>>, <<"a">>, <<"a", "b">>, <<"b">>}

\* the line of a unit file that carries the attribute, and the pattern
\* grep is given: f"X-UWSMType={only}"
attribute(value) == <<"X-UWSMType=">> \o value

\* grep -F: the line holds the fixed string somewhere
grep_F(pattern, line) ==
    \E i \in 1 .. Len(line) - Len(pattern) + 1 :
      SubSeq(line, i, i + Len(pattern) - 1) = pattern

\* grep -rlF f"X-UWSMType={only}" check_dir: the files that match
grep_rlF(only, units) ==
    {t \in units : grep_F(attribute(only), attribute(t))}

\* sorted(files): the paths of the generic units come before those of the
\* drop-ins, and 'wayland-wm@a.service.d' before 'wayland-wm@ab.service.d'
sorted_files(units) ==
    SelectSeq(<<generic, <<"a">>, <<"a", "b">>, <<"b">> >>,
              LAMBDA t : t \in units)

\* for file in sorted(files): remove_unit(file); remove_unit removes the
\* file unless dry_run, and ends in a NameError when the subdirectory of a
\* drop-in holds other files
RECURSIVE remove_units_loop(_, _)
remove_units_loop(files, units) ==
    IF files = <<>> THEN [units |-> units, raised |-> FALSE]
    ELSE LET removed == IF dry_run THEN units ELSE units \ {Head(files)}
         IN  IF Head(files) \in shared_subdirs
               THEN [units |-> removed, raised |-> TRUE]
               ELSE remove_units_loop(Tail(files), removed)

\* remove_units(only): if not only: only = ''
remove_units(only, units) ==
    remove_units_loop(sorted_files(grep_rlF(only, units)), units)

\* stop: returncode = stop_wm(); is_active raises when list-units returns
\* non-zero
stop_mode_stop_wm ==
    /\ start_pc = "stop"
    /\ UNCHANGED <<aux_state, textvars, checkvars, stopvars, args_wm,
                   dry_run, only_generate, custom, default_id, unit_files,
                   units_changed, reloaded, start_issued, signal_received>>
    /\ \E list_units_returncode \in {0, 1}, returncode \in {0, 1} :
         IF list_units_returncode # 0
           THEN /\ start_sys_exit(1)
                /\ UNCHANGED <<wm_service, stop_issued, stop_returncode>>
           ELSE /\ stop_wm(returncode)
                /\ start_pc' = "remove"
                /\ UNCHANGED start_exit

\* stop: if args.remove_units != False: remove_units(args.remove_units); if
\* units_changed: reload_systemd(); then sys.exit(returncode).
\* get_unit_path calls sys.exit(0) when XDG_RUNTIME_DIR is empty;
\* remove_units returns when grep returns non-zero or prints nothing
stop_mode_remove_units ==
    /\ start_pc = "remove"
    /\ UNCHANGED <<aux_state, textvars, checkvars, remove_units_arg,
                   typed_before, shared_subdirs, args_wm, dry_run,
                   only_generate, custom, default_id, unit_files,
                   wm_service, start_issued, signal_received, stop_issued,
                   stop_returncode>>
    /\ IF ~remove_units_arg.given
         THEN /\ start_sys_exit(stop_returncode)
              /\ UNCHANGED <<typed_units, units_changed, reloaded>>
         ELSE \E runtime_dir \in BOOLEAN, grep_returncode \in {0, 2} :
           IF ~runtime_dir
             THEN /\ start_sys_exit(0)
                  /\ UNCHANGED <<typed_units, units_changed, reloaded>>
           ELSE IF \/ grep_returncode # 0
                   \/ grep_rlF(remove_units_arg.only, typed_units) = {}
             THEN /\ start_sys_exit(stop_returncode)
                  /\ UNCHANGED <<typed_units, units_changed, reloaded>>
           ELSE LET result == remove_units(remove_units_arg.only, typed_units)
                IN  /\ typed_units' = result.units
                    /\ IF result.raised
                         THEN /\ units_changed' = TRUE
                              /\ start_sys_exit(1)
                              /\ UNCHANGED reloaded
                       ELSE IF dry_run
                         THEN /\ units_changed' = FALSE
                              /\ start_sys_exit(stop_returncode)
                              /\ UNCHANGED reloaded
                       ELSE \E returncode \in {0, 1} :
                              /\ reloaded' = TRUE
                              /\ units_changed' = (returncode # 0)
                              /\ start_sys_exit(IF returncode # 0 THEN 1
                                                ELSE stop_returncode)

\* a 'stop' invocation with or without -r, any unit files and WM service
\* state
InitStop ==
    /\ InitProcess
    /\ RaceIdle
    /\ TextIdle
    /\ CheckIdle
    /\ sysenv = EmptyDict
    /\ start_pc = "stop"
    /\ args_wm = <<>>
    /\ dry_run \in BOOLEAN
    /\ only_generate = FALSE
    /\ custom = FALSE
    /\ default_id = <<>>
    /\ unit_files = [u \in Units \cup Dirs |-> "absent"]
    /\ units_changed = FALSE
    /\ reloaded = FALSE
    /\ wm_service \in BOOLEAN
    /\ start_issued = FALSE
    /\ signal_received = ""
    /\ stop_issued = FALSE
    /\ stop_returncode = Running
    /\ start_exit = Running
    /\ remove_units_arg \in
         {[given |-> FALSE, only |-> <<>>]}
           \cup [given : {TRUE}, only : OnlyArgs]
    /\ typed_units \in SUBSET UnitTypes
    /\ typed_before = typed_units
    /\ shared_subdirs \in SUBSET (UnitTypes \ {generic})

NextStop ==
    \/ stop_mode_stop_wm
    \/ stop_mode_remove_units

SpecStop == InitStop /\ [][NextStop]_vars

\* ------------------------------------------------------------------------
\* Properties
\* ------------------------------------------------------------------------
\* prepare_env has computed its three sets and not yet touched anything
Computed == cmd = "prepare-env" /\ pc = "pe_write"

\* C1: the cleanup set computed by prepare_env equals
\* (keys of set_env \cup always_cleanup) \ never_cleanup, so a never_cleanup
\* name that the shell code added or changed is not in it.
C1_CleanupSetExcludesNeverCleanup ==
    Computed =>
        cleanup_varnames =
            ((DOMAIN set_env) \cup always_cleanup) \ never_cleanup

\* C2: no cleanup file ever holds a name of never_cleanup.
C2_LedgerHoldsNoNeverCleanup ==
    \A f \in DOMAIN ledger : set(ledger[f]) \cap never_cleanup = {}

\* C3: 'aux cleanup-env' that finds no cleanup file exits 0 and has removed
\* the names of always_cleanup \ never_cleanup from the user manager.
C3_CleanupWithoutLedgerRemovesAlways ==
    (cmd = "cleanup-env" /\ pc = "exited" /\ exit_code = 0
        /\ ~cleanup_returned)
    => (always_cleanup \ never_cleanup) \cap (DOMAIN sysenv) = {}

\* C4: 'aux prepare-env' in which prepare_env raised exits non-zero.
C4_PrepareFailureExitsNonZero ==
    (cmd = "prepare-env" /\ pc = "exited" /\ error # "") => exit_code # 0

C6_EmptyPostRaises ==
    (cmd = "prepare-env" /\ pc \in {"pe_import", "pe_dbus", "pe_unset"})
    => env_post # EmptyDict

\* C7: the names prepare_env exports contain no name of never_export or
\* always_unset.
C7_ExclusionAfterInclusion ==
    Computed => (DOMAIN set_env) \cap (never_export \cup always_unset) = {}

\* C7 witness: the shell code added or changed a never_export name and an
\* always_unset name
C7_Witness ==
    /\ Computed
    /\ "SHELL" \in DOMAIN set_env_raw
    /\ "DISPLAY" \in DOMAIN set_env_raw
    /\ "PATH" \in DOMAIN set_env

\* C8: an always_export name present in env_post with the value it has in
\* env_pre, and in neither never_export nor always_unset, is in set_env
\* with its env_post value.
C8_ForcedExportOfUnchanged ==
    Computed =>
        \A n \in always_export \ (never_export \cup always_unset) :
            (/\ n \in DOMAIN env_pre
             /\ n \in DOMAIN env_post
             /\ env_pre[n] = env_post[n])
            => (n \in DOMAIN set_env /\ set_env[n] = env_post[n])

\* C8 witness: PATH unchanged by the shell code, nothing else to export
C8_Witness ==
    /\ Computed
    /\ "PATH" \in DOMAIN env_pre
    /\ "PATH" \in DOMAIN env_post
    /\ env_pre["PATH"] = env_post["PATH"]
    /\ set_env_raw = EmptyDict

\* C9: unset_varnames is exactly the names the user manager holds that are
\* in always_unset or are keys of env_pre missing from env_post.
C9_UnsetRestrictedToKnown ==
    Computed =>
        /\ unset_varnames \subseteq DOMAIN sysenv
        /\ \A n \in DOMAIN sysenv :
             n \in unset_varnames <=>
               \/ n \in always_unset
               \/ (n \in DOMAIN env_pre /\ n \notin DOMAIN env_post)
        /\ \A n \in always_unset \cap (DOMAIN sysenv) : n \in unset_varnames

\* C9 witness: an always_unset name held by the user manager and kept by
\* the shell code is unset; a removed name the manager does not hold is not
C9_Witness ==
    /\ Computed
    /\ "DISPLAY" \in DOMAIN sysenv
    /\ "DISPLAY" \in DOMAIN env_pre
    /\ "DISPLAY" \in DOMAIN env_post
    /\ "DISPLAY" \in unset_varnames
    /\ "SHELL" \in (DOMAIN env_pre) \ (DOMAIN env_post)
    /\ "SHELL" \notin DOMAIN sysenv

\* C10: set_env as first assigned holds exactly the entries of env_post
\* whose name is not in env_pre or whose value differs from env_pre's.
C10_RawDifference ==
    Computed =>
        set_env_raw =
            [k \in {n \in DOMAIN env_post :
                      n \notin DOMAIN env_pre \/ env_post[n] # env_pre[n]}
               |-> env_post[k]]

\* C10 witness: one name added, one changed, one unchanged, one removed
C10_Witness ==
    /\ Computed
    /\ "SSH_AUTH_SOCK" \in (DOMAIN env_post) \ (DOMAIN env_pre)
    /\ "PATH" \in (DOMAIN env_pre) \cap (DOMAIN env_post)
    /\ env_pre["PATH"] # env_post["PATH"]
    /\ "SHELL" \in (DOMAIN env_pre) \cap (DOMAIN env_post)
    /\ env_pre["SHELL"] = env_post["SHELL"]
    /\ "DISPLAY" \in (DOMAIN env_pre) \ (DOMAIN env_post)
    /\ DOMAIN set_env_raw = {"SSH_AUTH_SOCK", "PATH"}

\* ------------------------------------------------------------------------
\* The cleanup file: updates and consumption
\* ------------------------------------------------------------------------
\* a step in which prepare_env or finalize rewrites the cleanup file
LedgerUpdate ==
    \/ pc = "pe_write" /\ pc' = "pe_import"
    \/ pc \in {"idle", "exited"} /\ pc' = "fin_dbus"

\* the names that step adds: cleanup_varnames or set(export_vars)
Contribution ==
    IF pc = "pe_write" THEN cleanup_varnames ELSE set(export_vars')

\* the names cleanup file f held before the step
Previous(f) == IF f \in DOMAIN ledger THEN set(ledger[f]) ELSE {}

\* the names of all the cleanup files
AllLedgerNames == UNION {set(ledger[f]) : f \in DOMAIN ledger}

\* C11: every update of a cleanup file leaves in it exactly the names it
\* held before and the names the update contributes, one per line, and
\* leaves the other cleanup files alone; so after an update of A and an
\* update of B the file holds previous content \cup A \cup B.
C11_UpdateIsUnion ==
    [][LedgerUpdate =>
          /\ DOMAIN ledger' = DOMAIN ledger \cup {wm_id'}
          /\ set(ledger'[wm_id']) = Previous(wm_id') \cup Contribution
          /\ Len(ledger'[wm_id']) = Cardinality(set(ledger'[wm_id']))
          /\ \A f \in DOMAIN ledger \ {wm_id'} : ledger'[f] = ledger[f]]_vars

\* C11 witness: finalize has added a name to a file an earlier update wrote
C11_Witness ==
    /\ cmd = "finalize" /\ pc = "fin_dbus"
    /\ "PATH" \in current_cleanup_varnames
    /\ "SSH_AUTH_SOCK" \in set(export_vars) \ current_cleanup_varnames
    /\ set(ledger[wm_id]) = current_cleanup_varnames \cup set(export_vars)

\* C12: an update contributing only names the cleanup file already holds
\* (as the second of two updates with the same names does) leaves the file
\* as it was.
C12_RepeatedUpdateIsNoOp ==
    [][(LedgerUpdate /\ wm_id' \in DOMAIN ledger
            /\ Contribution \subseteq Previous(wm_id'))
       => ledger' = ledger]_vars

\* C12 witness: finalize has rewritten a file that already held all its
\* export_vars, a never_cleanup name among them
C12_Witness ==
    /\ cmd = "finalize" /\ pc = "fin_dbus"
    /\ "SSH_AUTH_SOCK" \in set(export_vars)
    /\ set(export_vars) \subseteq current_cleanup_varnames
    /\ set(ledger[wm_id]) = current_cleanup_varnames

C14_AllFilesUnionedAndDeleted ==
    /\ pc \in {"ce_show", "ce_dbus", "ce_unset", "ce_remove"}
           => /\ cleanup_files = DOMAIN ledger
              /\ current_cleanup_varnames = AllLedgerNames
    /\ (pc = "exited" /\ cleanup_returned) => DOMAIN ledger = {}

\* C14 witness: two cleanup files with different names are about to be
\* removed
C14_Witness ==
    /\ pc = "ce_remove"
    /\ cleanup_files = WmIds
    /\ set(ledger["sway"]) # set(ledger["labwc"])
    /\ current_cleanup_varnames = set(ledger["sway"]) \cup set(ledger["labwc"])

\* C15: every name cleanup_env asks the user manager to remove is a name
\* the user manager holds.
C15_RemovalWithinKnown ==
    pc \in {"ce_dbus", "ce_unset"} => cleanup_varnames \subseteq systemd_varnames

\* C16: cleanup_env asks for the removal of no name of never_cleanup.
C16_RemovalExcludesNeverCleanup ==
    pc \in {"ce_dbus", "ce_unset"} => cleanup_varnames \cap never_cleanup = {}

\* C17: when the shell output has no mark or the shell returned non-zero,
\* prepare_env raises the matching error with no cleanup file written and
\* nothing changed in the user manager.
C17_ShellFailureRaisesFirst ==
    [][(cmd' = "prepare-env" /\ pc \in {"idle", "exited"}
            /\ (mark_position' < 0 \/ shell_returncode' # 0))
       => /\ error' \in {"No env mark in shell output!", "Shell returned 1!"}
          /\ (mark_position' < 0) <=> (error' = "No env mark in shell output!")
          /\ pc' = "ce_list"
          /\ ledger' = ledger
          /\ sysenv' = sysenv]_vars

\* C17 witness: the mark was found, the shell returned 1, a cleanup file of
\* an earlier run exists
C17_Witness ==
    /\ cmd = "prepare-env" /\ pc = "ce_list"
    /\ mark_position = 0 /\ shell_returncode = 1
    /\ error = "Shell returned 1!"
    /\ exported = {}
    /\ ledger # NoFiles

\* C19: when both invocations have rewritten the cleanup file, it holds
\* the names it held at the beginning and the names of both invocations,
\* in whatever order their reads and writes happened.
C19_NoLostUpdate ==
    (\A p \in Procs : upd_pc[p] = "done")
    => (upd_initial \cup upd_names[1] \cup upd_names[2])
           \subseteq Previous(RaceId)

\* C18: a signal delivered while start waits for the WM service runs
\* stop_wm_and_exit: stop is issued when the WM is active, and the process
\* exits with what stop_wm returned.
C18_SignalStopsAndExits ==
    [][(start_pc = "wait" /\ signal_received = "" /\ signal_received' # "")
       => /\ start_pc' = "exited"
          /\ wm_service => stop_issued'
          /\ stop_returncode' # Running
          /\ start_exit' = stop_returncode']_vars

\* C20: an invocation whose WM identifier is empty or does not conform
\* exits non-zero, and no step in which the identifier is such changes the
\* saved default id, a unit file, a cleanup file or the user manager.
C20_InvalidIdChangesNothing ==
    /\ []((start_pc = "exited" /\ (args_wm = <<>> \/ ~conforms(args_wm)))
             => start_exit \notin {Running, 0})
    /\ [][(args_wm' = <<>> \/ ~conforms(args_wm'))
          => /\ default_id' = default_id
             /\ unit_files' = unit_files
             /\ ledger' = ledger
             /\ sysenv' = sysenv]_vars

\* C21: a second computation of prepare_env from the same env_pre,
\* env_post, tables and names of the user manager gives the same set_env,
\* unset_varnames and cleanup_varnames as the first, in whatever order the
\* sets are iterated.
C21_SameInputsSameSets ==
    rerun.done =>
        /\ set_env = rerun.set_env
        /\ unset_varnames = rerun.unset_varnames
        /\ cleanup_varnames = rerun.cleanup_varnames

\* C21 witness: the second computation met four changed entries, the last
\* name first, and excluded SHELL before DISPLAY
C21_Witness ==
    /\ rerun.done
    /\ Len(rerun.item_order) = 4
    /\ rerun.item_order[1][1] = "SSH_AUTH_SOCK"
    /\ rerun.pop_order = <<"SHELL", "DISPLAY">>
    /\ "PATH" \in DOMAIN set_env

\* C22: what is read from a cleanup file, whatever it holds, is a set of
\* non-empty names with no white space around them; a file the program
\* has written holds no blank line and no name twice, and reading it gives
\* exactly its lines.
C22_LedgerTextIsASet ==
    /\ \A n \in read_text(text) :
         /\ n # <<>>
         /\ Head(n) \notin WhiteSpace
         /\ n[Len(n)] \notin WhiteSpace
    /\ text_written =>
         /\ \A i, j \in DOMAIN readlines(text) :
              i # j => readlines(text)[i] # readlines(text)[j]
         /\ \A i \in DOMAIN readlines(text) : strip(readlines(text)[i]) # <<>>
         /\ read_text(text) = set(readlines(text))

\* C22 witness: a file with a name twice and a blank line was rewritten
\* with one name added
C22_Witness ==
    /\ text_written
    /\ text_before = <<"A", "\n", "\n", "A">>
    /\ text = <<"A", "\n", "B">>

\* C23: a dry-run 'start' creates, rewrites and removes no unit file and
\* no directory, saves no default WM id, issues no daemon-reload, no start
\* and no stop of the WM service, and never waits for it.
C23_DryRunChangesNothing ==
    /\ [](dry_run => /\ ~reloaded
                     /\ ~start_issued
                     /\ ~stop_issued
                     /\ start_pc # "wait")
    /\ [][dry_run => /\ unit_files' = unit_files
                     /\ default_id' = default_id
                     /\ wm_service' = wm_service]_vars

\* C23 witness: a dry run with a selected WM, a customised command line and
\* an empty runtime directory has run to its end
C23_Witness ==
    /\ dry_run
    /\ start_pc = "exited"
    /\ start_exit = 0
    /\ ~only_generate
    /\ custom
    /\ default_id = <<>>
    /\ unit_files = [u \in Units \cup Dirs |-> "absent"]

\* C24: finalize reaches systemd-notify --ready only with the cleanup
\* file holding every exported name and with both export commands
\* returned zero, all of export_vars exported; once an export command
\* returns non-zero finalize has exited 1 and does not notify.
C24_NotifyAfterLedgerAndExports ==
    /\ (cmd = "finalize" /\ pc = "fin_notify") =>
         /\ returncode_local = 0
         /\ exported = set(export_vars)
         /\ "WAYLAND_DISPLAY" \in exported
         /\ isfile(wm_id)
         /\ exported \subseteq read_cleanup_file(wm_id)
    /\ (cmd = "finalize" /\ notified) =>
         /\ returncode_local = 0
         /\ "WAYLAND_DISPLAY" \in exported
         /\ isfile(wm_id)
         /\ exported \subseteq read_cleanup_file(wm_id)
    /\ (cmd = "finalize" /\ returncode_local # 0) =>
         /\ pc = "exited"
         /\ exit_code = 1
         /\ ~notified

\* C24 witness: finalize has notified after exporting two names
C24_Witness ==
    /\ cmd = "finalize"
    /\ notified
    /\ exported = {"WAYLAND_DISPLAY", "DISPLAY"}
    /\ exit_code = 0

\* C25: 'check may-start' ends with 0 or 1, and with 0 exactly when
\* list-units reports no active or activating WM unit, the command line of
\* the parent starts with a dash, fgconsole prints a number that is among
\* the numbers given, or is 1 when none is given, and graphical.target is
\* active.
C25_MayStartIffAllConditions ==
    check_pc = "exited" =>
      /\ check_exit \in {0, 1}
      /\ check_exit = 0 <=>
           /\ probes.list_units_returncode = 0
           /\ strip(probes.list_units_stdout) = <<>>
           /\ probes.cmdline_readable
           /\ strip(probes.parent_cmdline) # <<>>
           /\ Head(strip(probes.parent_cmdline)) = "-"
           /\ strip(probes.fgconsole_stdout) \in {<<"1">>, <<"2">>, <<"1", "2">>}
           /\ LET number == IF strip(probes.fgconsole_stdout) = <<"1">> THEN 1
                            ELSE IF strip(probes.fgconsole_stdout) = <<"2">>
                              THEN 2
                            ELSE 12
              IN  \/ probes.vtnr = <<>> /\ number = 1
                  \/ \E i \in DOMAIN probes.vtnr : probes.vtnr[i] = number
           /\ probes.target_returncode = 0

\* C25 witness: all conditions hold with the default VT and the answer is 0
C25_Witness ==
    /\ check_pc = "exited"
    /\ check_exit = 0
    /\ probes.vtnr = <<>>
    /\ probes.fgconsole_stdout = <<"1", "\n">>
    /\ probes.parent_cmdline = <<"-", "b">>
    /\ dealbreakers = <<>>

\* C26: when 'stop' has ended, without -r every unit file is still there,
\* and with -r X, X not empty, every unit file whose X-UWSMType value is
\* not X is still there.
C26_RemovesOnlyExactType ==
    start_pc = "exited" =>
      /\ ~remove_units_arg.given => typed_units = typed_before
      /\ (remove_units_arg.given /\ remove_units_arg.only # <<>>) =>
           \A t \in typed_before :
             t # remove_units_arg.only => t \in typed_units

\* C27: 'aux cleanup-env' that finds a WM unit active or activating has
\* exited 1, and the step in which it finds this changes neither the user
\* manager's environment nor a cleanup file.
C27_ActiveWmRefusesCleanup ==
    /\ []((cmd = "cleanup-env" /\ wm_active)
            => (pc = "exited" /\ exit_code = 1 /\ ~cleanup_returned))
    /\ [][(cmd' = "cleanup-env" /\ wm_active')
            => (ledger' = ledger /\ sysenv' = sysenv)]_vars

\* C27 witness: cleanup-env was refused with a cleanup file and the names
\* of a session in place
C27_Witness ==
    /\ cmd = "cleanup-env"
    /\ wm_active
    /\ pc = "exited"
    /\ exit_code = 1
    /\ isfile("sway")
    /\ "SSH_AUTH_SOCK" \in DOMAIN sysenv
    /\ sysenv["SSH_AUTH_SOCK"] # EmptyValue

\* C28: a step of prepare_env or finalize that exports names to the user
\* manager finds all the names it asks to export, those that get through
\* included, in the cleanup file of the session, written before, and does
\* not touch the file.
C28_LedgerBeforeExport ==
    /\ [][(exported' \ exported # {})
            => /\ cmd \in {"prepare-env", "finalize"}
               /\ isfile(wm_id)
               /\ exported' \subseteq read_cleanup_file(wm_id)
               /\ ledger' = ledger]_vars
    /\ []((cmd = "prepare-env" /\ pc \in {"pe_import", "pe_dbus"})
            => (isfile(wm_id)
                /\ DOMAIN set_env \subseteq read_cleanup_file(wm_id)))
    /\ []((cmd = "finalize" /\ pc \in {"fin_dbus", "fin_import"})
            => (isfile(wm_id)
                /\ set(export_vars) \subseteq read_cleanup_file(wm_id)))

\* C28 witness: prepare_env has exported a name that is in no table of
\* names to clean up and is about to export it again over D-Bus
C28_Witness ==
    /\ cmd = "prepare-env"
    /\ pc = "pe_dbus"
    /\ "SSH_AUTH_SOCK" \in exported
    /\ "SSH_AUTH_SOCK" \notin always_cleanup
    /\ "SSH_AUTH_SOCK" \in read_cleanup_file(wm_id)

\* C30: when unset-environment returns non-zero in cleanup_env, the
\* process exits 1 in that step with every cleanup file left as it is and
\* cleanup_env not returned; whatever dbus-update-activation-environment
\* returns, cleanup_env goes on to unset-environment.
C30_UnsetFailureKeepsLedger ==
    /\ [][(pc = "ce_unset" /\ returncode_local' # 0)
            => /\ pc' = "exited"
               /\ exit_code' = 1
               /\ ledger' = ledger
               /\ ~cleanup_returned']_vars
    /\ [][pc = "ce_dbus"
            => /\ pc' = "ce_unset"
               /\ exit_code' = exit_code
               /\ ledger' = ledger]_vars
    /\ []((pc = "exited" /\ cmd = "cleanup-env" /\ returncode_local # 0)
            => (exit_code = 1 /\ ~cleanup_returned /\ DOMAIN ledger # {}))

\* C30 witness: cleanup-env has ended on a failed unset-environment with
\* the cleanup file and a recorded name still there
C30_Witness ==
    /\ cmd = "cleanup-env"
    /\ pc = "exited"
    /\ ~wm_active
    /\ returncode_local # 0
    /\ exit_code = 1
    /\ isfile("sway")
    /\ "DISPLAY" \in read_cleanup_file("sway")
    /\ "DISPLAY" \in DOMAIN sysenv

\* C29: when cleanup-env has ended with 0 after prepare-env and finalize
\* invocations that all succeeded, the user manager holds none of the names
\* they exported, the names of never_cleanup aside.
C29_CleanupRemovesSessionNames ==
    (cmd = "cleanup-env" /\ pc = "exited" /\ exit_code = 0) =>
      /\ ~wm_active
      /\ \A n \in session_exported \ never_cleanup : n \notin DOMAIN sysenv

\* C29 witness: cleanup-env has removed a name no table holds, exported by
\* prepare-env, and the names finalize exported
C29_Witness ==
    /\ cmd = "cleanup-env"
    /\ pc = "exited"
    /\ exit_code = 0
    /\ cleanup_returned
    /\ {"FOO", "WAYLAND_DISPLAY"} \subseteq session_exported
    /\ "FOO" \notin DOMAIN sysenv
    /\ "WAYLAND_DISPLAY" \notin DOMAIN sysenv

\* C31: finalize gets past its checks only with the cleanup file of the
\* active WM in place and WAYLAND_DISPLAY set and not empty; a finalize
\* that does not get past them exits 1 in its first step, with no cleanup
\* file created or changed, nothing exported to the user manager and no
\* notification; and finalize has no other first step.
C31_FinalizeRefusesWithoutLedger ==
    /\ [][(pc \in {"idle", "exited"} /\ cmd' = "finalize"
             /\ pc' # "exited")
            => /\ pc' = "fin_dbus"
               /\ wm_id' \in DOMAIN ledger
               /\ "WAYLAND_DISPLAY" \in DOMAIN environ'
               /\ environ'["WAYLAND_DISPLAY"] # EmptyValue]_vars
    /\ [][(pc \in {"idle", "exited"} /\ cmd' = "finalize"
             /\ pc' = "exited")
            => /\ exit_code' = 1
               /\ ledger' = ledger
               /\ sysenv' = sysenv
               /\ exported' = {}
               /\ ~notified']_vars
    /\ [][(pc \in {"idle", "exited"} /\ cmd' = "finalize"
             /\ wm_id' \notin DOMAIN ledger)
            => pc' = "exited"]_vars

\* C31 witness: finalize has ended with 1 for a WM that is active and has
\* no cleanup file, next to the cleanup file of another
C31_Witness ==
    /\ cmd = "finalize"
    /\ pc = "exited"
    /\ exit_code = 1
    /\ wm_active
    /\ wm_id = "labwc"
    /\ ~isfile("labwc")
    /\ isfile("sway")
    /\ exported = {}
    /\ ~notified

\* C32: the names prepare_env exports and the names it unsets are
\* disjoint, and every exported name is a key of env_post, in set_env with
\* the value env_post has.
C32_ExportAndUnsetDisjoint ==
    Computed =>
        /\ (DOMAIN set_env) \cap unset_varnames = {}
        /\ \A n \in DOMAIN set_env :
             /\ n \in DOMAIN env_post
             /\ set_env[n] = env_post[n]

\* C32 witness: the shell code changed a name that is always unset and the
\* user manager holds, removed one the manager holds, and changed PATH
C32_Witness ==
    /\ Computed
    /\ "DISPLAY" \in DOMAIN set_env_raw
    /\ "DISPLAY" \in unset_varnames
    /\ "SHELL" \in unset_varnames
    /\ "PATH" \in DOMAIN set_env
    /\ "PATH" \in DOMAIN env_pre
    /\ env_pre["PATH"] # env_post["PATH"]

\* C33: a 'start' with dry run off that finds a WM unit active or
\* activating gets no further than the check and ends with 1: no unit file
\* or directory is made, changed or removed, the user manager is not
\* reloaded and no WM service is started.
C33_StartRefusesWhenActive ==
    /\ []((wm_service /\ ~dry_run /\ ~start_issued)
            => /\ start_pc \in {"begin", "fill", "active", "exited"}
               /\ start_pc = "exited" => start_exit = 1
               /\ ~reloaded
               /\ ~units_changed)
    /\ [][(wm_service /\ ~dry_run /\ ~start_issued)
            => /\ unit_files' = unit_files
               /\ ~start_issued'
               /\ ~stop_issued'
               /\ wm_service']_vars

\* C33 witness: a 'start' of a known WM with stale units, dry run off and a
\* WM active has ended with 1
C33_Witness ==
    /\ wm_service
    /\ ~dry_run
    /\ ~start_issued
    /\ start_pc = "exited"
    /\ start_exit = 1
    /\ args_wm # <<>>
    /\ conforms(args_wm)
    /\ args_wm \notin {select, default}
    /\ unit_files["wayland-wm@.service"] = "stale"

\* C34: a 'start' that ends inside generate_units although it was not
\* asked for the units only has met a fatal condition (the program is not
\* in PATH, XDG_RUNTIME_DIR is empty or not defined) or an exception, and
\* ends with a status other than 0.
C34_FatalPathExitsNonZero ==
    [][(start_pc = "generate" /\ ~only_generate /\ start_pc' = "exited")
         => start_exit' # 0]_vars

====
